---- MODULE Spec2Model ----
(***************************************************************************)
(* Model of bedrock-web-data-hub's RemoteStorage facade (RemoteStorage.js),*)
(* its KeyCache (KeyCache.js) and the MasterKey it uses (MasterKey.js).    *)
(*                                                                         *)
(* JavaScript values are records with a "type" field, so that null, a      *)
(* MasterKey instance, a JWE and an Error can be compared with one another.*)
(* Cryptography is symbolic: a wrapped key or a ciphertext is a record     *)
(* naming the key it was made under, and unwrapping/decrypting succeeds    *)
(* exactly when the same key is presented.                                 *)
(*                                                                         *)
(* An async function is cut at its awaits on the transport and on the      *)
(* listener's promise: the code between two such awaits touches the shared *)
(* state (key cache, listener slot, index set) in one synchronous segment, *)
(* and is one action.                                                      *)
(***************************************************************************)
EXTENDS Integers, Sequences, FiniteSets, TLC

VARIABLES
  keyCache,   \* RemoteStorage.keyCache: [masterKey, expiration: [timeout], timerId]
  timers,     \* the runtime's pending timeouts: set of [id, remaining]
  elapsed,    \* ms since the expiry timer was last armed (observer's clock)
  cacheEvent, \* the last thing that happened to the key cache (observer's log)
  indexes,    \* RemoteStorage.indexes: the set of indexable attribute names
  listener,   \* RemoteStorage._listener: Null or the registered listener
  procs,      \* the facade operations in progress, one record per caller
  generated,  \* number of master secrets MasterKey.generate() has produced
  srvMasterKey, \* the server's wrapped master key for the account, or Null
  srvDocs,    \* the server's encrypted documents for the account
  written,    \* observer: per id, the cleartext document last stored (or Null)
  writtenIdx, \* observer: per id, the index set that document was encrypted with
  created,    \* observer: how many createMasterKey calls resolved / were refused
  returned,   \* observer: what the last call of on / ensureIndex returned or threw
  registry,   \* bedrock-web-store's objects and the getRemoteStorage calls under way
  hubs        \* the data hub configurations the server holds, and the
              \* DataHubService call under way

cacheVars == <<keyCache, timers, elapsed, cacheEvent>>
serverVars == <<srvMasterKey, srvDocs, written, writtenIdx>>
vars == <<keyCache, timers, elapsed, cacheEvent, indexes, listener, procs,
          generated, srvMasterKey, srvDocs, written, writtenIdx, created,
          returned, registry, hubs>>

----------------------------------------------------------------------------
(* Bounds of the model *)

\* largest explicit timeout (ms) handed to KeyCache.update directly
MaxTimeout == 4

\* how long (ms) after the timer was armed time is still observed ms by ms;
\* after that it is observed at the deadlines only
MaxElapsed == 1

\* number of distinct master secrets that can be generated
MaxKeys == 2

\* number of data hub configurations that can be created
MaxHubs == 2

(* Program constants *)

DEFAULT_KEY_TIMEOUT == 60000

----------------------------------------------------------------------------
(* Values *)

Null == [type |-> "null"]

\* `this.timerId` before the first setTimeout (undefined); timer ids are > 0
NoTimerId == 0

Secrets == 1..MaxKeys

\* MasterKey._deriveKey(type): HMAC-SHA-256(master, type), imported as a key
DeriveKey(master, type) == [type |-> "CryptoKey", derived |-> type, from |-> master]

\* new MasterKey({key}): the derived keys are null until _init() has run
NewMasterKey(secret) ==
  [type |-> "MasterKey", master |-> secret, kek |-> Null, hmac |-> Null]

\* new MasterKey({key}) followed by _init()
MasterKeyOf(secret) ==
  [type |-> "MasterKey", master |-> secret,
   kek |-> DeriveKey(secret, "kek"), hmac |-> DeriveKey(secret, "hmac")]

MasterKeys == {MasterKeyOf(s) : s \in Secrets}

----------------------------------------------------------------------------
(* The runtime's timers: setTimeout / clearTimeout *)

TimerIds(tm) == {t.id : t \in tm}

\* the id setTimeout returns: a positive integer no pending timer carries
NewTimerId(tm) == CHOOSE i \in 1..(Cardinality(tm) + 1) : i \notin TimerIds(tm)

ClearTimeout(tm, id) == {t \in tm : t.id # id}

SetTimeout(tm, delay) == tm \cup {[id |-> NewTimerId(tm), remaining |-> delay]}

----------------------------------------------------------------------------
(* KeyCache.js *)

KeyCacheInit ==
  [masterKey |-> Null, expiration |-> [timeout |-> 0], timerId |-> NoTimerId]

\* KeyCache.clear()
KC_clear(kc) == [kc EXCEPT !.masterKey = Null]

\* mutant: the timer armed before is cancelled only while a key is cached
KC_cancelPending_whenCached(kc, tm) ==
  IF kc.masterKey # Null THEN ClearTimeout(tm, kc.timerId) ELSE tm

\* mutant: resetTimeout leaves the timer it armed before pending
KC_cancelPending_none(kc, tm) == tm

\* the timers left after resetTimeout's clearTimeout(this.timerId)
KC_cancelPending(kc, tm) == ClearTimeout(tm, kc.timerId)

\* mutant: the timer is rearmed with the default, not the stored timeout
KC_resetTimeout_default(kc, tm) ==
  LET cleared == KC_cancelPending(kc, tm)
  IN  [kc |-> [kc EXCEPT !.timerId = NewTimerId(cleared)],
       timers |-> SetTimeout(cleared, DEFAULT_KEY_TIMEOUT)]

\* KeyCache.resetTimeout(): the pair (cache, timers) after the call
KC_resetTimeout(kc, tm) ==
  LET cleared == KC_cancelPending(kc, tm)
  IN  [kc |-> [kc EXCEPT !.timerId = NewTimerId(cleared)],
       timers |-> SetTimeout(cleared, kc.expiration.timeout)]

\* mutant: the default timeout is ignored, a given timeout too
KC_timeoutArg_fixed(arg) == 0

\* the timeout update() stores: the `timeout = DEFAULT_KEY_TIMEOUT` default
\* applies when the argument has no (or an undefined) timeout
KC_timeoutArg(arg) ==
  IF "timeout" \in DOMAIN arg THEN arg.timeout ELSE DEFAULT_KEY_TIMEOUT

\* mutant: update stores the key and the timeout and arms no timer
KC_update_unarmed(kc, tm, arg) ==
  [kc |-> [kc EXCEPT !.masterKey = arg.masterKey,
                     !.expiration = [timeout |-> KC_timeoutArg(arg)]],
   timers |-> tm]

\* KeyCache.update({masterKey, timeout}): the pair (cache, timers) after it
KC_update(kc, tm, arg) ==
  KC_resetTimeout(
    [kc EXCEPT !.masterKey = arg.masterKey,
               !.expiration = [timeout |-> KC_timeoutArg(arg)]],
    tm)

----------------------------------------------------------------------------
(* Actions on the key cache alone *)

\* arguments a caller hands to KeyCache.update
UpdateArgs ==
  {[masterKey |-> k] : k \in MasterKeys}
    \cup {[masterKey |-> k, timeout |-> t] : k \in MasterKeys, t \in 0..MaxTimeout}

CacheUpdate(arg) ==
  LET r == KC_update(keyCache, timers, arg)
  IN  /\ keyCache' = r.kc
      /\ timers' = r.timers
      /\ elapsed' = 0
      /\ cacheEvent' = "update"
      /\ UNCHANGED <<indexes, listener, procs, generated, serverVars, created, returned, registry, hubs>>

CacheResetTimeout ==
  LET r == KC_resetTimeout(keyCache, timers)
  IN  /\ keyCache' = r.kc
      /\ timers' = r.timers
      /\ elapsed' = 0
      /\ cacheEvent' = "resetTimeout"
      /\ UNCHANGED <<indexes, listener, procs, generated, serverVars, created, returned, registry, hubs>>

CacheClear ==
  /\ keyCache' = KC_clear(keyCache)
  /\ cacheEvent' = "clear"
  /\ UNCHANGED <<timers, elapsed>>
  /\ UNCHANGED <<indexes, listener, procs, generated, serverVars, created, returned, registry, hubs>>

\* a pending timeout whose delay has run out fires: it calls clear()
TimerFire(t) ==
  /\ t \in timers
  /\ t.remaining = 0
  /\ timers' = timers \ {t}
  /\ keyCache' = KC_clear(keyCache)
  /\ cacheEvent' = "expired"
  /\ UNCHANGED elapsed
  /\ UNCHANGED <<indexes, listener, procs, generated, serverVars, created, returned, registry, hubs>>

\* the amounts by which time may advance: 1 ms (while the observer's clock is
\* small), or straight to the next deadline; never past a pending deadline
TickSteps ==
  {d \in ({1} \cup {t.remaining : t \in timers}) :
     /\ d >= 1
     /\ \A t \in timers : t.remaining >= d
     /\ (d = 1 /\ \A t \in timers : t.remaining # 1) => elapsed < MaxElapsed}

Tick(d) ==
  /\ d \in TickSteps
  /\ timers' = {[t EXCEPT !.remaining = @ - d] : t \in timers}
  /\ elapsed' = elapsed + d
  /\ UNCHANGED <<keyCache, cacheEvent>>
  /\ UNCHANGED <<indexes, listener, procs, generated, serverVars, created, returned, registry, hubs>>

----------------------------------------------------------------------------
(* MasterKey.js: symbolic cryptography *)

Passwords == {"pw1", "pw2"}

\* the values crypto.getRandomValues / generateKey can yield in one call
Randoms == {"r1", "r2"}

Error(name, message) == [type |-> "error", name |-> name, message |-> message]

IsError(v) == v.type = "error"

\* crypto.subtle.deriveKey with PBKDF2: the AES-KW key from password and salt
PasswordKey(password, salt, iterations) ==
  [type |-> "CryptoKey", password |-> password, salt |-> salt,
   iterations |-> iterations]

\* mutant: the key is wrapped under one fixed password, whatever is given
WrapWithPassword_fixedPassword(masterKey, password, salt) ==
  [type |-> "jwe",
   unprotected |-> [alg |-> "PBES2-HS512+A256KW", p2c |-> 4096, p2s |-> salt],
   encrypted_key |-> [wrapped |-> masterKey.master,
                      under |-> PasswordKey("pw1", salt, 4096)]]

\* MasterKey.wrapWithPassword({password}); `salt` is the random salt drawn
WrapWithPassword(masterKey, password, salt) ==
  [type |-> "jwe",
   unprotected |-> [alg |-> "PBES2-HS512+A256KW", p2c |-> 4096, p2s |-> salt],
   encrypted_key |-> [wrapped |-> masterKey.master,
                      under |-> PasswordKey(password, salt, 4096)]]

\* mutant: the key unwrapped holds another secret than the one wrapped
UnwrapWithPassword_otherSecret(password, jwe) ==
  IF jwe.encrypted_key.under
       # PasswordKey(password, jwe.unprotected.p2s, jwe.unprotected.p2c)
    THEN Error("OperationError", "")
  ELSE MasterKeyOf(jwe.encrypted_key.wrapped + 1)

\* mutant: unwrapping succeeds whatever the password
UnwrapWithPassword_anyPassword(password, jwe) ==
  MasterKeyOf(jwe.encrypted_key.wrapped)

\* MasterKey.unwrapWithPassword({password, jwe}): a MasterKey, or the error
\* thrown (AES-KW unwrapping under another key fails its integrity check)
UnwrapWithPassword(password, jwe) ==
  IF jwe.type # "jwe" THEN Error("TypeError", "\"jwe\" must be an object.")
  ELSE IF jwe.unprotected.alg # "PBES2-HS512+A256KW"
    THEN Error("Error", "Invalid or unsupported JWE header.")
  ELSE IF jwe.encrypted_key.under
            # PasswordKey(password, jwe.unprotected.p2s, jwe.unprotected.p2c)
    THEN Error("OperationError", "")
  ELSE MasterKeyOf(jwe.encrypted_key.wrapped)

\* the JavaScript value `undefined` as a property's value
Undefined == "<undefined>"

\* mutant: stringify keeps a property whose value is undefined
Stringify_keepsUndefined(v) == [type |-> "string", json |-> v]

\* JSON.stringify / JSON.parse of the objects the model uses: a property whose
\* value is undefined is left out of the text
Stringify(v) ==
  [type |-> "string",
   json |-> [k \in {j \in DOMAIN v : v[j] # Undefined} |-> v[k]]]

Parse(str) == str.json

\* MasterKey.encrypt({data}); `r` is the randomness drawn for the content
\* encryption key and the iv
Encrypt(masterKey, data, r) ==
  [type |-> "jwe",
   unprotected |-> [alg |-> "A256KW", enc |-> "A256GCM"],
   encrypted_key |-> [wrapped |-> r, under |-> masterKey.kek],
   iv |-> r,
   ciphertext |-> [plaintext |-> data, cek |-> r, iv |-> r]]

\* MasterKey.encryptObject({obj})
EncryptObject(masterKey, obj, r) == Encrypt(masterKey, Stringify(obj), r)

\* MasterKey.decrypt({jwe}): the data, or the error thrown
Decrypt(masterKey, jwe) ==
  IF jwe.type # "jwe" THEN Error("TypeError", "\"jwe\" must be an object.")
  ELSE IF ~("enc" \in DOMAIN jwe.unprotected /\ jwe.unprotected.alg = "A256KW"
            /\ jwe.unprotected.enc = "A256GCM")
    THEN Error("Error", "Invalid or unsupported JWE header.")
  ELSE IF jwe.encrypted_key.under # masterKey.kek THEN Error("OperationError", "")
  ELSE IF ~(jwe.ciphertext.cek = jwe.encrypted_key.wrapped
            /\ jwe.ciphertext.iv = jwe.iv)
    THEN Error("OperationError", "")
  ELSE jwe.ciphertext.plaintext

\* MasterKey.decryptObject({jwe})
DecryptObject(masterKey, jwe) ==
  LET data == Decrypt(masterKey, jwe)
  IN  IF IsError(data) THEN data ELSE Parse(data)

\* MasterKey.blind({data}): HMAC of the data under the derived hmac key
Blind(masterKey, data) == [type |-> "blinded", hmac |-> masterKey.hmac, data |-> data]

----------------------------------------------------------------------------
(* RemoteStorage.js: documents *)

AccountId == "test"

Ids == {"foo", "bar"}

Values == {"v1", "v2", Undefined}

\* the attribute names ensureIndex is called with
Attributes == {"indexedKey", "id", "other"}

\* the cleartext documents callers write
Docs == {[type |-> "object", id |-> i, indexedKey |-> v] : i \in Ids, v \in Values}

\* a JavaScript number as a property's value
ANumber == "<number>"

\* what else callers hand to insert and update: a document whose id is the
\* empty string, one without an id, one whose id is a number, and null
OddDocs ==
  {[type |-> "object", id |-> i, indexedKey |-> "v1"] : i \in {"", Undefined, ANumber}}
    \cup {Null}

\* the own enumerable keys of a document, in `for(const key in doc)` order
DocKeys(doc) == <<"id", "indexedKey">>

DocValue(doc, key) == IF key = "id" THEN doc.id ELSE doc.indexedKey

\* RemoteStorage._blindAttribute({key, value, masterKey})
BlindAttribute(key, value, masterKey) ==
  [name |-> Blind(masterKey, key),
   value |-> Blind(masterKey, Stringify([key |-> value]))]

\* mutant: every id is blinded to the same value
BlindId_constant(id, masterKey) == Blind(masterKey, "")

\* RemoteStorage._blindId({id, masterKey})
BlindId(id, masterKey) == Blind(masterKey, id)

\* mutant: the loop stops after the first indexed key
CreateAttributes_firstOnly(doc, masterKey, idx) ==
  LET keys == DocKeys(doc)
      at(i) == IF keys[i] \in idx
                 THEN <<BlindAttribute(keys[i], DocValue(doc, keys[i]), masterKey)>>
                 ELSE <<>>
  IN  IF at(1) # <<>> THEN at(1) ELSE at(2)

\* mutant: every key of the document is blinded, indexed or not
CreateAttributes_all(doc, masterKey, idx) ==
  LET keys == DocKeys(doc)
  IN  [i \in DOMAIN keys |->
         BlindAttribute(keys[i], DocValue(doc, keys[i]), masterKey)]

\* RemoteStorage._createAttributes({doc, masterKey}) with index set `idx`
CreateAttributes(doc, masterKey, idx) ==
  LET keys == DocKeys(doc)
      at(i) == IF keys[i] \in idx
                 THEN <<BlindAttribute(keys[i], DocValue(doc, keys[i]), masterKey)>>
                 ELSE <<>>
  IN  at(1) \o at(2)

\* mutant: the record's id is blinded from the document's text, not its id
EncryptDoc_idFromContent(doc, masterKey, idx, r) ==
  [type |-> "object",
   id |-> Blind(masterKey, Stringify(doc)),
   attributes |-> CreateAttributes(doc, masterKey, idx),
   jwe |-> EncryptObject(masterKey, doc, r)]

\* RemoteStorage._encrypt(doc) once the master key is at hand
EncryptDoc(doc, masterKey, idx, r) ==
  [type |-> "object",
   id |-> BlindId(doc.id, masterKey),
   attributes |-> CreateAttributes(doc, masterKey, idx),
   jwe |-> EncryptObject(masterKey, doc, r)]

\* RemoteStorage._decrypt(encryptedDoc) once the master key is at hand: the
\* cleartext document, or the error thrown
DecryptDoc(encryptedDoc, masterKey) ==
  LET doc == DecryptObject(masterKey, encryptedDoc.jwe)
  IN  IF IsError(doc) THEN doc
      ELSE IF ~(doc.type = "object" /\ "id" \in DOMAIN doc /\ doc.id # ANumber)
        THEN Error("Error", "Invalid decrypted document.")
      ELSE doc

----------------------------------------------------------------------------
(* The storage server behind the transport (spec section 6) *)

Request(method, resource, id, body, ifNoneMatch) ==
  [type |-> "request", method |-> method, resource |-> resource, id |-> id,
   body |-> body, ifNoneMatch |-> ifNoneMatch]

Response(status, data) == [type |-> "response", status |-> status, data |-> data]

StoredDoc(docs, id) == {d \in docs : d.id = id}

AttributeNames(doc) == {doc.attributes[i].name : i \in DOMAIN doc.attributes}

AttributePairs(doc) ==
  {<<doc.attributes[i].name, doc.attributes[i].value>> : i \in DOMAIN doc.attributes}

\* the documents a blinded query selects: every name of `has`, or every pair of
\* at least one object of `equals`
QueryMatches(docs, query) ==
  IF "has" \in DOMAIN query
    THEN {d \in docs :
            \A i \in DOMAIN query.has : query.has[i] \in AttributeNames(d)}
    ELSE {d \in docs :
            \E i \in DOMAIN query.equals : query.equals[i] \subseteq AttributePairs(d)}

\* a set of documents as the array the server returns (one fixed order)
RECURSIVE SetToSeq(_)
SetToSeq(S) ==
  IF S = {} THEN <<>>
  ELSE LET x == CHOOSE y \in S : TRUE IN <<x>> \o SetToSeq(S \ {x})

\* the status and body the server answers a request with
ServerResponse(req, smk, docs) ==
  IF req.resource = "master-key" THEN
    IF req.method = "PUT" THEN
      IF req.ifNoneMatch /\ smk # Null THEN Response(304, Null)
      ELSE Response(204, Null)
    ELSE IF req.method = "POST" THEN Response(204, Null)
    ELSE IF smk = Null THEN Response(404, Null) ELSE Response(200, smk)
  ELSE IF req.resource = "documents" THEN
    IF StoredDoc(docs, req.body.id) # {} THEN Response(409, Null)
    ELSE Response(204, Null)
  ELSE IF req.resource = "document" THEN
    IF req.method = "PUT" THEN Response(204, Null)
    ELSE IF StoredDoc(docs, req.id) = {} THEN Response(404, Null)
    ELSE IF req.method = "GET"
      THEN Response(200, CHOOSE d \in StoredDoc(docs, req.id) : TRUE)
    ELSE Response(204, Null)
  ELSE Response(200, SetToSeq(QueryMatches(docs, req.body)))

\* the wrapped master key the server holds after a request
ServerMasterKeyAfter(req, smk) ==
  IF req.resource = "master-key" /\ req.method = "PUT"
       /\ ~(req.ifNoneMatch /\ smk # Null) THEN req.body
  ELSE IF req.resource = "master-key" /\ req.method = "POST" THEN req.body
  ELSE smk

\* the documents the server holds after a request
ServerDocsAfter(req, docs) ==
  IF req.resource = "documents" THEN
    IF StoredDoc(docs, req.body.id) # {} THEN docs ELSE docs \cup {req.body}
  ELSE IF req.resource = "document" /\ req.method = "PUT"
    THEN (docs \ StoredDoc(docs, req.id)) \cup {req.body}
  ELSE IF req.resource = "document" /\ req.method = "DELETE"
    THEN docs \ StoredDoc(docs, req.id)
  ELSE docs

\* what a stored record can become outside this facade's control (the server
\* is semi-trusted, and other holders of the master key write to it): its jwe
\* is lost, its iv is altered, or its body is replaced by the encryption of an
\* object without a string id
Corruptions == {"nojwe", "iv", "noid"}

Corrupt(d, kind) ==
  CASE kind = "nojwe" -> [type |-> "object", id |-> d.id, attributes |-> d.attributes]
    [] kind = "iv" -> [d EXCEPT !.jwe.iv = "altered"]
    [] kind = "noid" ->
         [d EXCEPT !.jwe = EncryptObject(MasterKeyOf(d.jwe.encrypted_key.under.from),
                                         [type |-> "object", id |-> ANumber], "r1")]

----------------------------------------------------------------------------
(* RemoteStorage.js: find's filters *)

Str(x) == [type |-> "string", value |-> x]

Arr(items) == [type |-> "array", items |-> items]

\* an object literal: its entries in `for(const key in equal)` order
Obj(entries) == [type |-> "object", entries |-> entries]

\* the filters callers hand to find that name exactly one of has and equals,
\* of the documented types: a record with the fields that are defined
ValidFilters ==
  {[has |-> Str("indexedKey")], [has |-> Str("other")],
   [has |-> Arr(<<Str("indexedKey")>>)],
   [has |-> Arr(<<Str("indexedKey"), Str("id")>>)]}
    \cup {[equals |-> Obj(<<<<"indexedKey", v>>>>)] : v \in Values}
    \cup {[equals |-> Obj(<<<<"indexedKey", "v1">>, <<"id", "foo">>>>)],
          [equals |-> Obj(<<<<"indexedKey", "v1">>, <<"other", "v1">>>>)],
          [equals |-> Arr(<<Obj(<<<<"indexedKey", "v1">>>>)>>)],
          [equals |-> Arr(<<Obj(<<<<"indexedKey", "v1">>>>),
                            Obj(<<<<"indexedKey", "v2">>>>)>>)]}

\* the filters callers hand to find that do not
InvalidFilters ==
  {[type |-> "object"],
   [equals |-> Obj(<<<<"indexedKey", "v1">>>>), has |-> Str("indexedKey")],
   [equals |-> Str("indexedKey")], [equals |-> Null],
   [equals |-> Arr(<<Obj(<<<<"indexedKey", "v1">>>>), Str("indexedKey")>>)],
   [has |-> [type |-> "number"]], [has |-> Null],
   [has |-> Arr(<<Str("indexedKey"), [type |-> "number"]>>)]}

\* the filters callers hand to find
FindFilters == ValidFilters \cup InvalidFilters

\* the empty string as the name to match, alone and as the one element of an
\* array
EmptyNameFilters == {[has |-> Str("")], [has |-> Arr(<<Str("")>>)]}

\* mutant: find accepts a filter that defines both equals and has
ValidateFind_both(filter) ==
  IF "equals" \notin DOMAIN filter /\ "has" \notin DOMAIN filter
    THEN Error("Error", "Either \"equals\" or \"has\" must be defined.")
    ELSE Null

\* find's parameter validation: Null, or the error thrown
ValidateFind(filter) ==
  LET hasEquals == "equals" \in DOMAIN filter
      hasHas == "has" \in DOMAIN filter
  IN  IF ~hasEquals /\ ~hasHas
        THEN Error("Error", "Either \"equals\" or \"has\" must be defined.")
      ELSE IF hasEquals /\ hasHas
        THEN Error("Error", "Only one of \"equals\" or \"has\" may be defined at once.")
      ELSE IF hasEquals /\ filter.equals.type = "array"
                /\ \E i \in DOMAIN filter.equals.items :
                      filter.equals.items[i].type \notin {"object", "array"}
        THEN Error("TypeError", "\"equals\" must be an array of objects.")
      ELSE IF hasEquals /\ filter.equals.type \notin {"array", "object"}
        THEN Error("TypeError", "\"equals\" must be an object or an array of objects.")
      ELSE IF hasHas /\ filter.has.type = "array"
                /\ \E i \in DOMAIN filter.has.items :
                      ~(filter.has.items[i].type = "string"
                        /\ filter.has.items[i].value # "")
        THEN Error("TypeError", "\"has\" must be an array of strings.")
      ELSE IF hasHas /\ filter.has.type \notin {"array", "string"}
        THEN Error("TypeError", "\"has\" must be a string or an array of strings.")
      ELSE Null

\* a single filter value as the one-element array find turns it into
AsArray(v) == IF v.type = "array" THEN v.items ELSE <<v>>

\* mutant: only the first name of `has` is sent
FindQuery_firstHas(filter, masterKey) ==
  IF "equals" \in DOMAIN filter
    THEN LET equals == AsArray(filter.equals)
         IN  [equals |->
                [i \in DOMAIN equals |->
                   {LET attr == BlindAttribute(equals[i].entries[j][1],
                                               equals[i].entries[j][2], masterKey)
                    IN  <<attr.name, attr.value>> : j \in DOMAIN equals[i].entries}]]
    ELSE LET has == AsArray(filter.has)
         IN  [has |-> [i \in {1} |-> Blind(masterKey, has[i].value)]]

\* mutant: only the first object of `equals` is sent
FindQuery_firstEquals(filter, masterKey) ==
  IF "equals" \in DOMAIN filter
    THEN LET equals == AsArray(filter.equals)
         IN  [equals |->
                [i \in {1} |->
                   {LET attr == BlindAttribute(equals[i].entries[j][1],
                                               equals[i].entries[j][2], masterKey)
                    IN  <<attr.name, attr.value>> : j \in DOMAIN equals[i].entries}]]
    ELSE LET has == AsArray(filter.has)
         IN  [has |-> [i \in DOMAIN has |-> Blind(masterKey, has[i].value)]]

\* the blinded query find posts for a valid filter
FindQuery(filter, masterKey) ==
  IF "equals" \in DOMAIN filter
    THEN LET equals == AsArray(filter.equals)
         IN  [equals |->
                [i \in DOMAIN equals |->
                   {LET attr == BlindAttribute(equals[i].entries[j][1],
                                               equals[i].entries[j][2], masterKey)
                    IN  <<attr.name, attr.value>> : j \in DOMAIN equals[i].entries}]]
    ELSE LET has == AsArray(filter.has)
         IN  [has |-> [i \in DOMAIN has |-> Blind(masterKey, has[i].value)]]

----------------------------------------------------------------------------
(* RemoteStorage.js: operations in progress *)

Procs == {"p1", "p2"}

KeyOps == {"insert", "update", "delete", "get", "find", "changeMasterKeyPassword"}

\* the arguments each operation is called with
OpArgs(op) ==
  CASE op \in {"insert", "update"} -> Docs \cup OddDocs
    [] op \in {"delete", "get"} -> {Str(i) : i \in Ids}
    [] op = "find" -> FindFilters \cup EmptyNameFilters
    [] op = "changeMasterKeyPassword" -> {Str(pw) : pw \in Passwords}

\* the operations that draw randomness (content key and iv, or salt)
OpRandoms(op) ==
  IF op \in {"insert", "update", "changeMasterKeyPassword"} THEN Randoms ELSE {"r1"}

Resolved(value) == [type |-> "resolved", value |-> value]

Rejected(error) == [type |-> "rejected", error |-> error]

Pending == [type |-> "pending"]

IdleProc ==
  [pc |-> "idle", op |-> "none", arg |-> Null, stage |-> 0, masterKey |-> Null,
   rand |-> "r1", msg |-> Null, data |-> Null, pending |-> 0, result |-> Pending,
   asked |-> 0, calls |-> 0, event |-> Null, idx |-> {}, response |-> Null]

\* a call of `op` with `arg`, before its first statement
NewProc(op, arg, rand) ==
  [IdleProc EXCEPT !.op = op, !.arg = arg, !.rand = rand, !.stage = 1]

\* the operation's promise settles and nothing of it is left running
Finish(pr, result) ==
  [pr EXCEPT !.pc = "done", !.result = result, !.msg = Null, !.data = Null,
             !.masterKey = Null, !.pending = 0, !.rand = "r1", !.idx = {}]

Settle(pr, value) == Finish(pr, IF IsError(value) THEN Rejected(value) ELSE Resolved(value))

Send(pr, req) == [pr EXCEPT !.pc = "req", !.msg = req]

\* _decrypt's validation of a record the server returned
ValidEncryptedDoc(encryptedDoc) ==
  /\ encryptedDoc.type = "object"
  /\ "id" \in DOMAIN encryptedDoc
  /\ "jwe" \in DOMAIN encryptedDoc
  /\ encryptedDoc.jwe.type = "jwe"

\* mutant: the records that fail to decrypt are left out of the result
DecryptAll_skipsFailures(encryptedDocs, masterKey) ==
  LET out == [i \in DOMAIN encryptedDocs |-> DecryptDoc(encryptedDocs[i], masterKey)]
  IN  [type |-> "array", items |-> SelectSeq(out, LAMBDA doc : ~IsError(doc))]

\* Promise.all over the decrypted results of find: the array of documents, or
\* the first error
DecryptAll(encryptedDocs, masterKey) ==
  LET out == [i \in DOMAIN encryptedDocs |-> DecryptDoc(encryptedDocs[i], masterKey)]
  IN  IF \E i \in DOMAIN out : IsError(out[i])
        THEN out[CHOOSE i \in DOMAIN out : IsError(out[i])]
        ELSE [type |-> "array", items |-> out]

\* the code that runs once `await this._getMasterKey()` has returned `key`,
\* up to the operation's next transport request or its end
WithKey(pr0, key, idx) ==
  LET pr == [pr0 EXCEPT !.masterKey = key,
                        !.idx = IF pr0.op \in {"insert", "update"} THEN idx ELSE {}]
  IN  CASE key.hmac = Null /\ pr.op # "changeMasterKeyPassword" ->
             Finish(pr, Rejected(Error("TypeError", "")))
        [] pr.op = "insert" ->
             Send(pr, Request("POST", "documents", Null,
                              EncryptDoc(pr.arg, key, idx, pr.rand), FALSE))
        [] pr.op = "update" ->
             LET encrypted == EncryptDoc(pr.arg, key, idx, pr.rand)
             IN  Send(pr, Request("PUT", "document", encrypted.id, encrypted, FALSE))
        [] pr.op = "delete" ->
             Send(pr, Request("DELETE", "document", BlindId(pr.arg.value, key),
                              Null, FALSE))
        [] pr.op = "get" /\ pr.stage = 1 ->
             Send(pr, Request("GET", "document", BlindId(pr.arg.value, key),
                              Null, FALSE))
        [] pr.op = "get" /\ pr.stage = 2 ->
             Settle(pr, DecryptDoc(pr.data, key))
        [] pr.op = "find" /\ pr.stage = 1 ->
             Send(pr, Request("POST", "query", Null, FindQuery(pr.arg, key), FALSE))
        [] pr.op = "find" /\ pr.stage = 2 ->
             Settle(pr, DecryptAll(pr.data, key))
        [] pr.op = "changeMasterKeyPassword" ->
             Send(pr, Request("POST", "master-key", Null,
                              WrapWithPassword(key, pr.arg.value, pr.rand), FALSE))

Bool(b) == [type |-> "boolean", value |-> b]

\* the masterKeyRequest listeners callers register: each responds with a promise
\* that fetches the wrapped key (getMasterKey), unwraps it with its password and
\* resolves to {masterKey} or {masterKey, timeout}
Listeners ==
  {[type |-> "function", password |-> pw] : pw \in Passwords}
    \cup {[type |-> "function", password |-> pw, timeout |-> 1] : pw \in Passwords}

\* listeners that respond with a promise resolving to a value whose masterKey
\* is no MasterKey instance: the wrapped key as fetched (never unwrapped), or
\* null
FaultyListeners ==
  {[type |-> "function", password |-> "pw1", responds |-> r] :
     r \in {"wrapped", "null"}}

\* a listener that unwraps the key and responds with a MasterKey it made with
\* the constructor, on which _init() never ran
RawListeners == {[type |-> "function", password |-> "pw1", responds |-> "constructed"]}

\* listeners that return without having called event.respondWith: one never
\* calls it, the other calls it later, from an asynchronous continuation,
\* when _getMasterKey has already read `result`
SilentListeners ==
  {[type |-> "function", password |-> "pw1", responds |-> r] : r \in {"never", "later"}}

\* the promise `result` holds when respondWith was not called: Promise.resolve(),
\* settled from the start with undefined
NoResponse == [type |-> "response", status |-> 200, data |-> Null]

\* what _getMasterKey awaits after invoking listener l, and where the
\* operation waits: the listener's fetch of the wrapped key, or `result` as
\* initialised
AwaitListener(pr, l) ==
  IF l \in SilentListeners
    THEN [pr EXCEPT !.pc = "keyResp", !.msg = NoResponse]
    ELSE [pr EXCEPT !.pc = "keyReq",
                    !.msg = [type |-> "request", method |-> "GET",
                             resource |-> "master-key", id |-> Null, body |-> Null,
                             ifNoneMatch |-> FALSE]]

\* mutant: a respondWith call made after the listener returned is honoured
ListenerOutcome_lateHonoured(l, jwe) ==
  IF "responds" \notin DOMAIN l THEN UnwrapWithPassword(l.password, jwe)
  ELSE IF l.responds = "wrapped" THEN jwe
  ELSE IF l.responds = "constructed"
    THEN LET unwrapped == UnwrapWithPassword(l.password, jwe)
         IN  IF IsError(unwrapped) THEN unwrapped ELSE NewMasterKey(unwrapped.master)
  ELSE IF l.responds = "later" THEN UnwrapWithPassword(l.password, srvMasterKey)
  ELSE IF l.responds = "never"
    THEN Error("TypeError", "Cannot destructure property 'masterKey' of undefined.")
  ELSE Null

\* what the listener's promise yields from the wrapped key `jwe` it fetched:
\* the masterKey property of the value it resolves to, or the error it rejects
\* with; destructuring the undefined that `result` holds when respondWith was
\* not called in time throws
ListenerOutcome(l, jwe) ==
  IF "responds" \notin DOMAIN l THEN UnwrapWithPassword(l.password, jwe)
  ELSE IF l.responds = "wrapped" THEN jwe
  ELSE IF l.responds \in {"never", "later"}
    THEN Error("TypeError", "Cannot destructure property 'masterKey' of undefined.")
  ELSE IF l.responds = "constructed"
    THEN LET unwrapped == UnwrapWithPassword(l.password, jwe)
         IN  IF IsError(unwrapped) THEN unwrapped ELSE NewMasterKey(unwrapped.master)
  ELSE Null

\* mutant: the error thrown for a value that is no MasterKey is a plain Error
NotAMasterKey_plainError == Error("Error", "\"masterKey\" must be a MasterKey instance.")

\* the error _getMasterKey throws when the listener's promise resolves to a
\* value whose masterKey is not a MasterKey instance
NotAMasterKey == Error("TypeError", "\"masterKey\" must be a MasterKey instance.")

\* the value the listener's promise resolves to once it holds the unwrapped key
ListenerResponse(l, masterKey) ==
  IF "timeout" \in DOMAIN l
    THEN [masterKey |-> masterKey, timeout |-> l.timeout]
    ELSE [masterKey |-> masterKey]

\* a listener whose responses differ from one invocation to the next: each
\* carries a timeout of 1 or of 2 ms
VaryingListeners == {[type |-> "function", password |-> "pw1", timeouts |-> {1, 2}]}

\* the values the listener's promise may resolve to
ListenerResponses(l, masterKey) ==
  IF "timeouts" \in DOMAIN l
    THEN {[masterKey |-> masterKey, timeout |-> t] : t \in l.timeouts}
    ELSE {ListenerResponse(l, masterKey)}

\* RemoteStorage.getMasterKey({password}) as the listener calls it: the request
GetMasterKeyRequest == Request("GET", "master-key", Null, Null, FALSE)

\* what axios throws for a status outside 2xx
TransportError(status) == [type |-> "error", name |-> "Error", message |-> "",
                           status |-> status]

\* mutant: the error's name is never set
MasterKeyNotFound_unnamed == Error("Error", "Master key not found.")

\* the error _getMasterKey throws when no key is cached and no listener is set
MasterKeyNotFound == Error("NotFoundError", "Master key not found.")

\* mutant: a cache miss is an error whether or not a listener is registered
NeedKey_missFails(p, pr0, n) ==
  LET pr == [pr0 EXCEPT !.asked = @ + n]
  IN  IF keyCache.masterKey # Null THEN
        LET r == KC_resetTimeout(keyCache, timers)
        IN  /\ keyCache' = r.kc
            /\ timers' = r.timers
            /\ elapsed' = 0
            /\ cacheEvent' = "resetTimeout"
            /\ procs' = [procs EXCEPT ![p] = WithKey(pr, keyCache.masterKey, indexes)]
      ELSE
        /\ procs' = [procs EXCEPT ![p] = Finish(pr, Rejected(MasterKeyNotFound))]
        /\ UNCHANGED cacheVars

\* mutant: the calls of one synchronous segment share one listener invocation
NeedKey_askOnce(p, pr0, n) ==
  LET pr == [pr0 EXCEPT !.asked = @ + n]
  IN  IF keyCache.masterKey # Null THEN
        LET r == KC_resetTimeout(keyCache, timers)
        IN  /\ keyCache' = r.kc
            /\ timers' = r.timers
            /\ elapsed' = 0
            /\ cacheEvent' = "resetTimeout"
            /\ procs' = [procs EXCEPT ![p] = WithKey(pr, keyCache.masterKey, indexes)]
      ELSE IF listener = Null THEN
        /\ procs' = [procs EXCEPT ![p] =
             Finish(pr, Rejected(MasterKeyNotFound))]
        /\ UNCHANGED cacheVars
      ELSE
        /\ procs' = [procs EXCEPT ![p] =
             [pr EXCEPT !.pc = "keyReq", !.calls = @ + 1, !.pending = 1,
                        !.event = [name |-> "MasterKeyRequest",
                                   accountId |-> AccountId],
                        !.msg = GetMasterKeyRequest]]
        /\ UNCHANGED cacheVars

\* RemoteStorage._getMasterKey() called `n` times in one synchronous segment by
\* operation `p` (whose record is `pr0`), and the code that follows it when the
\* key is cached
NeedKey(p, pr0, n) ==
  LET pr == [pr0 EXCEPT !.asked = @ + n]
  IN  IF keyCache.masterKey # Null THEN
        LET r == KC_resetTimeout(keyCache, timers)
        IN  /\ keyCache' = r.kc
            /\ timers' = r.timers
            /\ elapsed' = 0
            /\ cacheEvent' = "resetTimeout"
            /\ procs' = [procs EXCEPT ![p] = WithKey(pr, keyCache.masterKey, indexes)]
      ELSE IF listener = Null THEN
        /\ procs' = [procs EXCEPT ![p] =
             Finish(pr, Rejected(MasterKeyNotFound))]
        /\ UNCHANGED cacheVars
      ELSE
        /\ procs' = [procs EXCEPT ![p] =
             AwaitListener([pr EXCEPT !.calls = @ + n, !.pending = n,
                                      !.event = [name |-> "MasterKeyRequest",
                                                 accountId |-> AccountId]],
                           listener)]
        /\ UNCHANGED cacheVars

CanStart(p) == procs[p].pc \in {"idle", "done"}

\* RemoteStorage.createMasterKey({password}) up to its PUT
CreateMasterKey(p, password, salt) ==
  /\ CanStart(p)
  /\ generated < MaxKeys
  /\ generated' = generated + 1
  /\ LET masterKey == MasterKeyOf(generated + 1)
         pr == [NewProc("createMasterKey", Str(password), salt)
                  EXCEPT !.masterKey = masterKey]
     IN  procs' = [procs EXCEPT ![p] =
           Send(pr, Request("PUT", "master-key", Null,
                            WrapWithPassword(masterKey, password, salt), TRUE))]
  /\ UNCHANGED <<cacheVars, indexes, listener, serverVars, created, returned, registry, hubs>>

\* mutant: a document whose id is the empty string is refused as well
ValidateArg_nonEmpty(op, arg) ==
  IF op \in {"insert", "update"} THEN
    IF arg.type = "object" /\ arg.id \notin {Undefined, ANumber, ""} THEN Null
    ELSE Error("TypeError", "\"doc\" must be an object with an \"id\" string property.")
  ELSE IF op = "find" THEN ValidateFind(arg)
  ELSE Null

\* the argument checks insert/update (in _encrypt) and find make before they
\* ask for the master key: Null, or the error thrown
ValidateArg(op, arg) ==
  IF op \in {"insert", "update"} THEN
    IF arg.type = "object" /\ arg.id \notin {Undefined, ANumber} THEN Null
    ELSE Error("TypeError", "\"doc\" must be an object with an \"id\" string property.")
  ELSE IF op = "find" THEN ValidateFind(arg)
  ELSE Null

\* mutant: the master key is asked for before the argument is checked
StartOp_keyFirst(p, op, arg, rand) ==
  /\ CanStart(p)
  /\ op \in KeyOps
  /\ arg \in OpArgs(op)
  /\ rand \in OpRandoms(op)
  /\ LET pr == NewProc(op, arg, rand)
         invalid == ValidateArg(op, arg)
     IN  IF invalid = Null THEN NeedKey(p, pr, 1)
         ELSE IF keyCache.masterKey # Null THEN
           LET r == KC_resetTimeout(keyCache, timers)
           IN  /\ keyCache' = r.kc
               /\ timers' = r.timers
               /\ elapsed' = 0
               /\ cacheEvent' = "resetTimeout"
               /\ procs' = [procs EXCEPT ![p] = Finish(pr, Rejected(invalid))]
         ELSE /\ procs' = [procs EXCEPT ![p] =
                   Finish(pr, Rejected(IF listener = Null THEN MasterKeyNotFound
                                                          ELSE invalid))]
              /\ UNCHANGED cacheVars
  /\ UNCHANGED <<indexes, listener, generated, serverVars, created, returned, registry, hubs>>

\* insert, update, delete, get, find, changeMasterKeyPassword up to their first
\* transport request
StartOp(p, op, arg, rand) ==
  /\ CanStart(p)
  /\ op \in KeyOps
  /\ arg \in OpArgs(op)
  /\ rand \in OpRandoms(op)
  /\ LET pr == NewProc(op, arg, rand)
         invalid == ValidateArg(op, arg)
     IN  IF invalid # Null
           THEN /\ procs' = [procs EXCEPT ![p] = Finish(pr, Rejected(invalid))]
                /\ UNCHANGED cacheVars
           ELSE NeedKey(p, pr, 1)
  /\ UNCHANGED <<indexes, listener, generated, serverVars, created, returned, registry, hubs>>

\* observer: the cleartext last stored under each of the ids of Ids, after the
\* server has handled request `req` of an operation called with `arg`
WrittenAfter(req, arg, docs, w) ==
  IF req.resource = "documents" /\ StoredDoc(docs, req.body.id) = {}
       /\ arg.id \in Ids
    THEN [w EXCEPT ![arg.id] = arg]
  ELSE IF req.resource = "document" /\ req.method = "PUT" /\ arg.id \in Ids
    THEN [w EXCEPT ![arg.id] = arg]
  ELSE IF req.resource = "document" /\ req.method = "DELETE"
    THEN [w EXCEPT ![arg.value] = Null]
  ELSE w

\* observer: the index set the document last stored under each id was
\* encrypted with (`idx`: the one of the operation whose request is handled)
WrittenIdxAfter(req, arg, idx, docs, wi) ==
  IF req.resource = "documents" /\ StoredDoc(docs, req.body.id) = {}
       /\ arg.id \in Ids
    THEN [wi EXCEPT ![arg.id] = idx]
  ELSE IF req.resource = "document" /\ req.method = "PUT" /\ arg.id \in Ids
    THEN [wi EXCEPT ![arg.id] = idx]
  ELSE IF req.resource = "document" /\ req.method = "DELETE"
    THEN [wi EXCEPT ![arg.value] = {}]
  ELSE wi

\* the server handles the request an operation has in flight
ServerHandle(p) ==
  /\ procs[p].pc \in {"req", "keyReq"}
  /\ LET req == procs[p].msg
     IN  /\ procs' = [procs EXCEPT
               ![p].pc = IF @ = "req" THEN "resp" ELSE "keyResp",
               ![p].msg = ServerResponse(req, srvMasterKey, srvDocs)]
         /\ srvMasterKey' = ServerMasterKeyAfter(req, srvMasterKey)
         /\ srvDocs' = ServerDocsAfter(req, srvDocs)
         /\ written' = WrittenAfter(req, procs[p].arg, srvDocs, written)
         /\ writtenIdx' = WrittenIdxAfter(req, procs[p].arg, procs[p].idx,
                                          srvDocs, writtenIdx)
  /\ UNCHANGED <<cacheVars, indexes, listener, generated, created, returned, registry, hubs>>

\* the statuses of a failed exchange: the ones some operation maps, and one
\* that none does
FailureStatuses == {304, 404, 409, 500}

\* the transport fails a request in flight: the caller gets the failure's
\* status and the server's state stays as it is
TransportFails(p, status) ==
  /\ procs[p].pc = "req"
  /\ status \in FailureStatuses
  /\ procs' = [procs EXCEPT ![p].pc = "resp", ![p].msg = Response(status, Null)]
  /\ UNCHANGED <<cacheVars, indexes, listener, generated, serverVars, written,
                 writtenIdx, created, returned, registry, hubs>>

\* a record the server stores is corrupted
Tamper(d, kind) ==
  /\ d \in srvDocs
  /\ kind \in Corruptions
  /\ ValidEncryptedDoc(d)
  /\ srvDocs' = (srvDocs \ {d}) \cup {Corrupt(d, kind)}
  /\ UNCHANGED <<cacheVars, indexes, listener, procs, generated, srvMasterKey,
                 written, writtenIdx, created, returned, registry, hubs>>

\* the server answers for record d with the body of another record e it
\* stores, validly encrypted under the same master key
Substitute(d, e) ==
  /\ d \in srvDocs
  /\ e \in srvDocs
  /\ d.id # e.id
  /\ ValidEncryptedDoc(d)
  /\ ValidEncryptedDoc(e)
  /\ d.jwe # e.jwe
  /\ srvDocs' = (srvDocs \ {d}) \cup {[d EXCEPT !.jwe = e.jwe]}
  /\ UNCHANGED <<cacheVars, indexes, listener, procs, generated, srvMasterKey,
                 written, writtenIdx, created, returned, registry, hubs>>

\* mutant: a failed update counts as done
FinalResult_swallows(op, status) ==
  CASE op = "createMasterKey" /\ status = 304 ->
         Rejected(Error("DuplicateError", "Duplicate error."))
    [] op = "insert" /\ status = 409 ->
         Rejected(Error("DuplicateError", "Duplicate error."))
    [] op = "delete" /\ status = 404 -> Resolved(Bool(FALSE))
    [] op = "get" /\ status = 404 ->
         Rejected(Error("NotFoundError", "Document not found"))
    [] OTHER ->
         IF status \in 200..299 \/ op = "update" THEN Resolved(Bool(TRUE))
         ELSE Rejected(TransportError(status))

\* mutant: createMasterKey lets the transport's error for 304 through
FinalResult_raw304(op, status) ==
  CASE op = "insert" /\ status = 409 ->
         Rejected(Error("DuplicateError", "Duplicate error."))
    [] op = "delete" /\ status = 404 -> Resolved(Bool(FALSE))
    [] op = "get" /\ status = 404 ->
         Rejected(Error("NotFoundError", "Document not found"))
    [] OTHER ->
         IF status \in 200..299 THEN Resolved(Bool(TRUE))
         ELSE Rejected(TransportError(status))

\* mutant: insert lets the transport's error for 409 through
FinalResult_raw409(op, status) ==
  CASE op = "createMasterKey" /\ status = 304 ->
         Rejected(Error("DuplicateError", "Duplicate error."))
    [] op = "delete" /\ status = 404 -> Resolved(Bool(FALSE))
    [] op = "get" /\ status = 404 ->
         Rejected(Error("NotFoundError", "Document not found"))
    [] OTHER ->
         IF status \in 200..299 THEN Resolved(Bool(TRUE))
         ELSE Rejected(TransportError(status))

\* mutant: get lets the transport's error for 404 through
FinalResult_getRaw404(op, status) ==
  CASE op = "createMasterKey" /\ status = 304 ->
         Rejected(Error("DuplicateError", "Duplicate error."))
    [] op = "insert" /\ status = 409 ->
         Rejected(Error("DuplicateError", "Duplicate error."))
    [] op = "delete" /\ status = 404 -> Resolved(Bool(FALSE))
    [] OTHER ->
         IF status \in 200..299 THEN Resolved(Bool(TRUE))
         ELSE Rejected(TransportError(status))

\* mutant: delete lets the transport's error for 404 through
FinalResult_deleteRaw404(op, status) ==
  CASE op = "createMasterKey" /\ status = 304 ->
         Rejected(Error("DuplicateError", "Duplicate error."))
    [] op = "insert" /\ status = 409 ->
         Rejected(Error("DuplicateError", "Duplicate error."))
    [] op = "get" /\ status = 404 ->
         Rejected(Error("NotFoundError", "Document not found"))
    [] OTHER ->
         IF status \in 200..299 THEN Resolved(Bool(TRUE))
         ELSE Rejected(TransportError(status))

\* the result of an operation whose transport response ends it, from the
\* response's status
FinalResult(op, status) ==
  CASE op = "createMasterKey" /\ status = 304 ->
         Rejected(Error("DuplicateError", "Duplicate error."))
    [] op = "insert" /\ status = 409 ->
         Rejected(Error("DuplicateError", "Duplicate error."))
    [] op = "delete" /\ status = 404 -> Resolved(Bool(FALSE))
    [] op = "get" /\ status = 404 ->
         Rejected(Error("NotFoundError", "Document not found"))
    [] OTHER ->
         IF status \in 200..299 THEN Resolved(Bool(TRUE))
         ELSE Rejected(TransportError(status))

\* observer: the count of createMasterKey outcomes after a response
CreatedAfter(op, status, c) ==
  IF op # "createMasterKey" THEN c
  ELSE IF status \in 200..299 THEN [c EXCEPT !.resolved = @ + 1]
  ELSE [c EXCEPT !.refused = @ + 1]

\* mutant: createMasterKey resolves without caching the generated key
CreateMasterKeyStored_uncached(p) ==
  /\ procs' = [procs EXCEPT ![p] =
                 Finish(procs[p], FinalResult(procs[p].op, procs[p].msg.status))]
  /\ UNCHANGED cacheVars

\* createMasterKey after its PUT has succeeded: the generated key is cached
CreateMasterKeyStored(p) ==
  LET pr == procs[p]
      r == KC_update(keyCache, timers, [masterKey |-> pr.masterKey])
  IN  /\ keyCache' = r.kc
      /\ timers' = r.timers
      /\ elapsed' = 0
      /\ cacheEvent' = "update"
      /\ procs' = [procs EXCEPT ![p] = Finish(pr, FinalResult(pr.op, pr.msg.status))]

\* the code of an operation that runs when its transport response arrives
Continue(p) ==
  /\ procs[p].pc = "resp"
  /\ LET pr == procs[p]
         resp == pr.msg
         ok == resp.status \in 200..299
     IN  CASE pr.op = "createMasterKey" /\ ok -> CreateMasterKeyStored(p)
           [] pr.op = "changeMasterKeyPassword" /\ ok ->
                LET r == KC_resetTimeout(keyCache, timers)
                IN  /\ keyCache' = r.kc
                    /\ timers' = r.timers
                    /\ elapsed' = 0
                    /\ cacheEvent' = "resetTimeout"
                    /\ procs' = [procs EXCEPT ![p] =
                                   Finish(pr, FinalResult(pr.op, resp.status))]
           [] pr.op = "get" /\ ok ->
                IF ValidEncryptedDoc(resp.data)
                  THEN NeedKey(p, [pr EXCEPT !.stage = 2, !.data = resp.data,
                                             !.msg = Null], 1)
                  ELSE /\ procs' = [procs EXCEPT ![p] = Finish(pr, Rejected(
                            Error("TypeError", "\"encryptedDoc\" must be an object with \"id\" and \"jwe\" properties.")))]
                       /\ UNCHANGED cacheVars
           [] pr.op = "find" /\ ok ->
                IF resp.data = <<>>
                  THEN /\ procs' = [procs EXCEPT ![p] =
                            Finish(pr, Resolved([type |-> "array", items |-> <<>>]))]
                       /\ UNCHANGED cacheVars
                ELSE IF \E i \in DOMAIN resp.data : ~ValidEncryptedDoc(resp.data[i])
                  THEN /\ procs' = [procs EXCEPT ![p] = Finish(pr, Rejected(
                            Error("TypeError", "\"encryptedDoc\" must be an object with \"id\" and \"jwe\" properties.")))]
                       /\ UNCHANGED cacheVars
                ELSE NeedKey(p, [pr EXCEPT !.stage = 2, !.data = resp.data,
                                           !.msg = Null], Len(resp.data))
           [] OTHER ->
                /\ procs' = [procs EXCEPT ![p] =
                               Finish(pr, FinalResult(pr.op, resp.status))]
                /\ UNCHANGED cacheVars
  /\ created' = CreatedAfter(procs[p].op, procs[p].msg.status, created)
  /\ UNCHANGED <<indexes, listener, generated, serverVars, returned, registry, hubs>>

\* mutant: a response that resolves while a key is cached is dropped
KeyResolved_firstWins(p) ==
  /\ procs[p].pc = "keyResp"
  /\ LET pr == procs[p]
         resp == pr.msg
         outcome == IF resp.status \in 200..299
                      THEN ListenerOutcome(listener, resp.data)
                      ELSE TransportError(resp.status)
         thrown == IF IsError(outcome) THEN outcome
                   ELSE IF outcome.type # "MasterKey" THEN NotAMasterKey
                   ELSE Null
         last == pr.pending = 1
         again == AwaitListener([pr EXCEPT !.pending = @ - 1], listener)
     IN  IF thrown # Null THEN
           /\ procs' = [procs EXCEPT ![p] =
                IF pr.result # Pending
                  THEN (IF last THEN Finish(pr, pr.result) ELSE again)
                  ELSE (IF last THEN Finish(pr, Rejected(thrown))
                        ELSE [again EXCEPT !.result = Rejected(thrown)])]
           /\ UNCHANGED cacheVars
         ELSE
           \E response \in ListenerResponses(listener, outcome) :
             LET r == IF keyCache.masterKey # Null
                        THEN [kc |-> keyCache, timers |-> timers]
                        ELSE KC_update(keyCache, timers, response)
                 got == [pr EXCEPT !.response = response]
             IN  /\ keyCache' = r.kc
                 /\ timers' = r.timers
                 /\ elapsed' = IF keyCache.masterKey # Null THEN elapsed ELSE 0
                 /\ cacheEvent' = "update"
                 /\ procs' = [procs EXCEPT ![p] =
                      IF ~last THEN [again EXCEPT !.masterKey = outcome,
                                                  !.response = response]
                      ELSE IF pr.result # Pending THEN Finish(got, pr.result)
                      ELSE WithKey(got, r.kc.masterKey, indexes)]
  /\ UNCHANGED <<indexes, listener, generated, serverVars, created, returned, registry, hubs>>

\* the listener's promise settles (its getMasterKey response has arrived) and
\* _getMasterKey resumes after `await result`
KeyResolved(p) ==
  /\ procs[p].pc = "keyResp"
  /\ LET pr == procs[p]
         resp == pr.msg
         outcome == IF resp.status \in 200..299
                      THEN ListenerOutcome(listener, resp.data)
                      ELSE TransportError(resp.status)
         thrown == IF IsError(outcome) THEN outcome
                   ELSE IF outcome.type # "MasterKey" THEN NotAMasterKey
                   ELSE Null
         last == pr.pending = 1
         again == AwaitListener([pr EXCEPT !.pending = @ - 1], listener)
     IN  IF thrown # Null THEN
           /\ procs' = [procs EXCEPT ![p] =
                IF pr.result # Pending
                  THEN (IF last THEN Finish(pr, pr.result) ELSE again)
                  ELSE (IF last THEN Finish(pr, Rejected(thrown))
                        ELSE [again EXCEPT !.result = Rejected(thrown)])]
           /\ UNCHANGED cacheVars
         ELSE
           \E response \in ListenerResponses(listener, outcome) :
             LET r == KC_update(keyCache, timers, response)
                 got == [pr EXCEPT !.response = response]
             IN  /\ keyCache' = r.kc
                 /\ timers' = r.timers
                 /\ elapsed' = 0
                 /\ cacheEvent' = "update"
                 /\ procs' = [procs EXCEPT ![p] =
                      IF ~last THEN [again EXCEPT !.masterKey = outcome,
                                                  !.response = response]
                      ELSE IF pr.result # Pending THEN Finish(got, pr.result)
                      ELSE WithKey(got, r.kc.masterKey, indexes)]
  /\ UNCHANGED <<indexes, listener, generated, serverVars, created, returned, registry, hubs>>

EventNames == {"masterKeyRequest", "error"}

\* the facade itself, which on() returns for chaining
This == [type |-> "RemoteStorage"]

\* what a method without a return statement returns
ReturnsUndefined == [type |-> "undefined"]

\* mutant: a second masterKeyRequest listener replaces the first
On_replaces(event, l) ==
  /\ event \in EventNames
  /\ l \in Listeners \cup FaultyListeners \cup RawListeners \cup VaryingListeners
          \cup SilentListeners
  /\ IF event = "masterKeyRequest"
       THEN listener' = l /\ returned' = This
       ELSE /\ UNCHANGED listener
            /\ returned' = Error("Error", "\"event\" must be \"masterKeyRequest\".")
  /\ UNCHANGED <<cacheVars, indexes, procs, generated, serverVars, created, registry, hubs>>

\* RemoteStorage.on(event, listener); a call that throws changes nothing
On(event, l) ==
  /\ event \in EventNames
  /\ l \in Listeners \cup FaultyListeners \cup RawListeners \cup VaryingListeners
          \cup SilentListeners
  /\ IF event # "masterKeyRequest"
       THEN /\ UNCHANGED listener
            /\ returned' = Error("Error", "\"event\" must be \"masterKeyRequest\".")
     ELSE IF listener # Null
       THEN /\ UNCHANGED listener
            /\ returned' = Error("Error", "Only one listener is permitted.")
     ELSE /\ listener' = l
          /\ returned' = This
  /\ UNCHANGED <<cacheVars, indexes, procs, generated, serverVars, created, registry, hubs>>

\* the values ensureIndex is called with
EnsureIndexArgs == {Str(a) : a \in Attributes} \cup {[type |-> "number"]}

\* mutant: ensureIndex adds whatever it is given
EnsureIndex_unchecked(attribute) ==
  /\ attribute \in EnsureIndexArgs
  /\ indexes' = indexes \cup {IF attribute.type = "string" THEN attribute.value
                                ELSE attribute.type}
  /\ returned' = ReturnsUndefined
  /\ UNCHANGED <<cacheVars, listener, procs, generated, serverVars, created, registry, hubs>>

\* RemoteStorage.ensureIndex({attribute}); a call that throws changes nothing
EnsureIndex(attribute) ==
  /\ attribute \in EnsureIndexArgs
  /\ IF attribute.type = "string"
       THEN /\ indexes' = indexes \cup {attribute.value}
            /\ returned' = ReturnsUndefined
       ELSE /\ UNCHANGED indexes
            /\ returned' = Error("TypeError", "\"attribute\" must be a string.")
  /\ UNCHANGED <<cacheVars, listener, procs, generated, serverVars, created, registry, hubs>>

----------------------------------------------------------------------------
(* getRemoteStorage and the store of bedrock-web-store it keeps the facades in.
   A RemoteStorage instance is known by the order of its construction; its
   index set and cached key stand for its state. *)

Accounts == {AccountId, "other"}

\* the accountId values getRemoteStorage is called with
AccountIdArgs == {Str(a) : a \in Accounts \cup {""}} \cup {Null}

Callers == {"c1", "c2"}

\* what store.get yields for an id nothing is stored under
NoInstance == 0

IdleCall == [pc |-> "idle", accountId |-> Null, local |-> NoInstance, result |-> Pending]

RegistryInit ==
  [store |-> [a \in Accounts |-> NoInstance],
   instances |-> <<>>,
   calls |-> [c \in Callers |-> IdleCall],
   handedOut |-> [a \in Accounts |-> {}]]

\* `new RemoteStorage({accountId})` followed by ensureIndex({attribute: 'type'})
NewRemoteStorage(accountId) ==
  [type |-> "RemoteStorage", accountId |-> accountId, indexes |-> {"type"},
   masterKey |-> Null]

\* call c resolves to instance i (observer: the instance is noted as handed out)
ReturnInstance(reg, c, i) ==
  [reg EXCEPT !.calls[c].pc = "done",
              !.calls[c].result = Resolved([type |-> "RemoteStorage", instance |-> i]),
              !.handedOut[reg.calls[c].accountId.value] = @ \cup {i}]

\* getRemoteStorage({accountId}) up to its `await store.get({id})`
GetRemoteStorage(c, accountId) ==
  /\ registry.calls[c].pc \in {"idle", "done"}
  /\ accountId \in AccountIdArgs
  /\ registry' =
       IF accountId.type = "string" /\ accountId.value # ""
         THEN [registry EXCEPT !.calls[c] =
                 [IdleCall EXCEPT !.pc = "get", !.accountId = accountId]]
         ELSE [registry EXCEPT !.calls[c] =
                 [IdleCall EXCEPT !.pc = "done", !.accountId = accountId,
                    !.result = Rejected(Error("TypeError",
                                 "\"accountId\" must be a non-empty string."))]]
  /\ UNCHANGED <<cacheVars, indexes, listener, procs, generated, serverVars,
                 created, returned, hubs>>

\* store.get has answered: the stored facade is returned, or a new one is
\* constructed and handed to store.create
StoreGot(c) ==
  /\ registry.calls[c].pc = "get"
  /\ LET a == registry.calls[c].accountId.value
         found == registry.store[a]
     IN  registry' =
           IF found # NoInstance THEN ReturnInstance(registry, c, found)
           ELSE [registry EXCEPT
                   !.instances = Append(@, NewRemoteStorage(a)),
                   !.calls[c].local = Len(registry.instances) + 1,
                   !.calls[c].pc = "create"]
  /\ UNCHANGED <<cacheVars, indexes, listener, procs, generated, serverVars,
                 created, returned, hubs>>

\* mutant: the call that loses the race returns the facade it constructed
StoreCreated_keepsOwn(c) ==
  /\ registry.calls[c].pc = "create"
  /\ LET a == registry.calls[c].accountId.value
         local == registry.calls[c].local
     IN  registry' =
           IF registry.store[a] = NoInstance
             THEN ReturnInstance([registry EXCEPT !.store[a] = local], c, local)
             ELSE ReturnInstance(registry, c, local)
  /\ UNCHANGED <<cacheVars, indexes, listener, procs, generated, serverVars,
                 created, returned, hubs>>

\* store.create has answered: the new facade is stored and returned, or the
\* DuplicateError is caught and store.get is asked again
StoreCreated(c) ==
  /\ registry.calls[c].pc = "create"
  /\ LET a == registry.calls[c].accountId.value
         local == registry.calls[c].local
     IN  registry' =
           IF registry.store[a] = NoInstance
             THEN ReturnInstance([registry EXCEPT !.store[a] = local], c, local)
             ELSE [registry EXCEPT !.calls[c].pc = "getAgain"]
  /\ UNCHANGED <<cacheVars, indexes, listener, procs, generated, serverVars,
                 created, returned, hubs>>

\* `return store.get({id})` after the DuplicateError
StoreGotAgain(c) ==
  /\ registry.calls[c].pc = "getAgain"
  /\ registry' = ReturnInstance(registry, c,
                    registry.store[registry.calls[c].accountId.value])
  /\ UNCHANGED <<cacheVars, indexes, listener, procs, generated, serverVars,
                 created, returned, hubs>>

\* the caller of a resolved call uses the facade it was given: ensureIndex, or
\* an operation that leaves a master key in the facade's cache
UseInstance(c, attribute, key) ==
  /\ registry.calls[c].pc = "done"
  /\ registry.calls[c].result.type = "resolved"
  /\ attribute \in {"indexedKey"}
  /\ key \in {MasterKeyOf(1)}
  /\ LET i == registry.calls[c].result.value.instance
     IN  \/ registry' = [registry EXCEPT !.instances[i].indexes = @ \cup {attribute}]
         \/ registry' = [registry EXCEPT !.instances[i].masterKey = key]
  /\ UNCHANGED <<cacheVars, indexes, listener, procs, generated, serverVars,
                 created, returned, hubs>>

----------------------------------------------------------------------------
(* DataHubService.js *)

Controllers == {"test", "other"}

\* the data hub configurations callers create
HubConfigs ==
  {[type |-> "object", id |-> i, controller |-> c, primary |-> b] :
     i \in {"h1", "h2"}, c \in Controllers, b \in BOOLEAN}

HubOps == {"create", "getAll", "getPrimary"}

\* the arguments each method is called with
HubArgs(op) ==
  CASE op = "create" -> {[config |-> config] : config \in HubConfigs}
    [] op = "getAll" ->
         {[controller |-> c] : c \in Controllers}
           \cup {[controller |-> c, primary |-> TRUE] : c \in Controllers}
    [] op = "getPrimary" -> {[controller |-> c] : c \in Controllers}

\* the request a method sends: create posts the configuration, getAll gets
\* with the query parameters that are defined, getPrimary calls getAll with
\* primary: true
HubRequest(op, arg) ==
  CASE op = "create" -> [method |-> "POST", data |-> arg.config]
    [] op = "getAll" ->
         [method |-> "GET", params |-> arg]
    [] op = "getPrimary" ->
         [method |-> "GET", params |-> [controller |-> arg.controller, primary |-> TRUE]]

\* the configurations a query selects, in the server's order
HubsMatching(configs, params) ==
  SelectSeq(configs, LAMBDA config :
    /\ config.controller = params.controller
    /\ ("primary" \in DOMAIN params /\ params.primary) => config.primary)

\* the server's answer: the created configuration, or the array of the
\* configurations that match the query parameters
HubResponse(req, configs) ==
  IF req.method = "POST" THEN Response(201, req.data)
  ELSE Response(200, Arr(HubsMatching(configs, req.params)))

\* JavaScript's v[name] for the values the model uses: an array has no
\* property of the names used here
PropertyOf(v, name) ==
  IF v.type = "object" /\ name \in DOMAIN v THEN v[name] ELSE Undefined

\* DataHubService.getAll once its request is answered: response.data
GetAll(response) == response.data

\* DataHubService.getPrimary once getAll has returned `all`:
\* const {data} = all; return data[0] || null
GetPrimary(all) ==
  LET data == PropertyOf(all, "data")
  IN  IF data = Undefined
        THEN Error("TypeError", "Cannot read property '0' of undefined")
      ELSE IF data.items = <<>> THEN Null
      ELSE data.items[1]

IdleHubCall == [pc |-> "idle", op |-> "", arg |-> Null, msg |-> Null, result |-> Pending]

HubsInit == [configs |-> <<>>, call |-> IdleHubCall]

\* a method of DataHubService up to its transport request
HubStart(op, arg) ==
  /\ hubs.call.pc \in {"idle", "done"}
  /\ op \in HubOps
  /\ arg \in HubArgs(op)
  /\ op = "create" => Len(hubs.configs) < MaxHubs
  /\ hubs' = [hubs EXCEPT !.call =
                [IdleHubCall EXCEPT !.pc = "req", !.op = op, !.arg = arg,
                                    !.msg = HubRequest(op, arg)]]
  /\ UNCHANGED <<cacheVars, indexes, listener, procs, generated, serverVars,
                 created, returned, registry>>

\* the data hub storage server handles the request
HubServerHandle ==
  /\ hubs.call.pc = "req"
  /\ LET req == hubs.call.msg
     IN  hubs' = [hubs EXCEPT
                    !.configs = IF req.method = "POST" THEN Append(@, req.data) ELSE @,
                    !.call.pc = "resp",
                    !.call.msg = HubResponse(req, hubs.configs)]
  /\ UNCHANGED <<cacheVars, indexes, listener, procs, generated, serverVars,
                 created, returned, registry>>

\* the method resumes with the response and settles
HubContinue ==
  /\ hubs.call.pc = "resp"
  /\ LET all == GetAll(hubs.call.msg)
         value == IF hubs.call.op = "getPrimary" THEN GetPrimary(all) ELSE all
     IN  hubs' = [hubs EXCEPT
                    !.call.pc = "done",
                    !.call.msg = Null,
                    !.call.result = IF IsError(value) THEN Rejected(value)
                                    ELSE Resolved(value)]
  /\ UNCHANGED <<cacheVars, indexes, listener, procs, generated, serverVars,
                 created, returned, registry>>

----------------------------------------------------------------------------
(* The system *)

\* a fresh facade; the server holds no document, and either no master key or
\* one an earlier session created under "pw1" (its secret is 0; the secrets
\* generated from now on are 1, 2, ...)
Init ==
  /\ keyCache = KeyCacheInit
  /\ timers = {}
  /\ elapsed = 0
  /\ cacheEvent = "constructed"
  /\ indexes = {}
  /\ listener = Null
  /\ procs = [p \in Procs |-> IdleProc]
  /\ generated = 0
  /\ srvMasterKey \in {Null, WrapWithPassword(MasterKeyOf(0), "pw1", "r1")}
  /\ srvDocs = {}
  /\ written = [i \in Ids |-> Null]
  /\ writtenIdx = [i \in Ids |-> {}]
  /\ created = [resolved |-> 0, refused |-> 0]
  /\ returned = Null
  /\ registry = RegistryInit
  /\ hubs = HubsInit

Next ==
  \/ \E p \in Procs, pw \in Passwords, salt \in Randoms : CreateMasterKey(p, pw, salt)
  \/ \E p \in Procs, op \in KeyOps :
       \E arg \in OpArgs(op), rand \in OpRandoms(op) : StartOp(p, op, arg, rand)
  \/ \E p \in Procs : ServerHandle(p)
  \/ \E p \in Procs : Continue(p)
  \/ \E p \in Procs : KeyResolved(p)
  \/ \E event \in EventNames,
          l \in Listeners \cup FaultyListeners \cup RawListeners \cup VaryingListeners
                 \cup SilentListeners :
       On(event, l)
  \/ \E attribute \in EnsureIndexArgs : EnsureIndex(attribute)
  \/ \E t \in timers : TimerFire(t)
  \/ \E d \in TickSteps : Tick(d)
  \/ \E c \in Callers, accountId \in AccountIdArgs : GetRemoteStorage(c, accountId)
  \/ \E c \in Callers : StoreGot(c)
  \/ \E c \in Callers : StoreCreated(c)
  \/ \E c \in Callers : StoreGotAgain(c)
  \/ \E c \in Callers : UseInstance(c, "indexedKey", MasterKeyOf(1))
  \/ \E d \in srvDocs, kind \in Corruptions : Tamper(d, kind)
  \/ \E p \in Procs, status \in FailureStatuses : TransportFails(p, status)

  \/ \E op \in HubOps : \E arg \in HubArgs(op) : HubStart(op, arg)
  \/ HubServerHandle
  \/ HubContinue

\* the whole system: any number of callers, every operation, every argument
Spec == Init /\ [][Next]_vars

----------------------------------------------------------------------------
(* The key cache used directly: any sequence of update, resetTimeout, clear,
   timer firings and passing time *)

InitCache == Init /\ srvMasterKey = Null

NextCache ==
  \/ \E arg \in UpdateArgs : CacheUpdate(arg)
  \/ CacheResetTimeout
  \/ CacheClear
  \/ \E t \in timers : TimerFire(t)
  \/ \E d \in TickSteps : Tick(d)

SpecCache == InitCache /\ [][NextCache]_vars

----------------------------------------------------------------------------
(* Master-key acquisition: one caller whose calls follow one another, every
   operation, one document *)

KeyArgs(op) ==
  CASE op \in {"insert", "update"} -> {d \in Docs : d.id = "foo" /\ d.indexedKey = "v1"}
    [] op \in {"delete", "get"} -> {Str("foo")}
    [] op = "find" -> {[has |-> Str("indexedKey")], [type |-> "object"]}
    [] op = "changeMasterKeyPassword" -> {Str(pw) : pw \in Passwords}

NextKey ==
  \/ \E pw \in Passwords : CreateMasterKey("p1", pw, "r1")
  \/ \E op \in KeyOps : \E arg \in KeyArgs(op) : StartOp("p1", op, arg, "r1")
  \/ ServerHandle("p1")
  \/ Continue("p1")
  \/ KeyResolved("p1")
  \/ \E event \in EventNames, l \in Listeners : On(event, l)
  \/ \E t \in timers : TimerFire(t)
  \/ \E d \in TickSteps : Tick(d)

SpecKey == Init /\ [][NextKey]_vars

----------------------------------------------------------------------------
(* Documents: one caller, every document, one password, one listener *)

DocOps == {"insert", "update", "delete", "get"}

NextDocs ==
  \/ CreateMasterKey("p1", "pw1", "r1")
  \/ \E op \in DocOps :
       \E arg \in OpArgs(op) \ OddDocs, rand \in OpRandoms(op) :
         StartOp("p1", op, arg, rand)
  \/ ServerHandle("p1")
  \/ Continue("p1")
  \/ KeyResolved("p1")
  \/ On("masterKeyRequest", [type |-> "function", password |-> "pw1"])
  \/ \E t \in timers : TimerFire(t)
  \/ \E d \in TickSteps : Tick(d)

SpecDocs == Init /\ [][NextDocs]_vars

----------------------------------------------------------------------------
(* Concurrent callers: createMasterKey and get by two callers at once *)

NextConc ==
  \/ \E p \in Procs, pw \in Passwords : CreateMasterKey(p, pw, "r1")
  \/ \E p \in Procs : StartOp(p, "get", Str("foo"), "r1")
  \/ \E p \in Procs : ServerHandle(p)
  \/ \E p \in Procs : Continue(p)
  \/ \E p \in Procs : KeyResolved(p)
  \/ On("masterKeyRequest", [type |-> "function", password |-> "pw1"])
  \/ \E t \in timers : TimerFire(t)
  \/ \E d \in TickSteps : Tick(d)

SpecConc == Init /\ [][NextConc]_vars

----------------------------------------------------------------------------
(* Indexing and queries: one caller who indexes attributes, writes documents
   and queries them; the cached key does not expire *)

\* the documents written: two contents for "foo", one for "bar"
FindDocs ==
  {d \in Docs : \/ d.id = "foo" /\ d.indexedKey \in {"v1", "v2"}
                \/ d.id = "bar" /\ d.indexedKey = "v1"}

NextFind ==
  \/ CreateMasterKey("p1", "pw1", "r1")
  \/ \E op \in {"insert", "update"} :
       \E arg \in FindDocs : StartOp("p1", op, arg, "r1")
  \/ \E filter \in FindFilters : StartOp("p1", "find", filter, "r1")
  \/ ServerHandle("p1")
  \/ Continue("p1")
  \/ \E attribute \in EnsureIndexArgs : EnsureIndex(attribute)

SpecFind == Init /\ [][NextFind]_vars

----------------------------------------------------------------------------
(* The index set: one caller, every method of the facade, one document; the
   cached key does not expire *)

NextIndex ==
  \/ CreateMasterKey("p1", "pw1", "r1")
  \/ \E op \in KeyOps : \E arg \in KeyArgs(op) : StartOp("p1", op, arg, "r1")
  \/ ServerHandle("p1")
  \/ Continue("p1")
  \/ KeyResolved("p1")
  \/ \E event \in EventNames :
       On(event, [type |-> "function", password |-> "pw1"])
  \/ \E attribute \in EnsureIndexArgs : EnsureIndex(attribute)

SpecIndex == Init /\ [][NextIndex]_vars

----------------------------------------------------------------------------
(* Listeners of every kind: one caller, every operation, one document, and a
   listener that may respond with something that is no MasterKey; the cached
   key does not expire *)

NextListen ==
  \/ CreateMasterKey("p1", "pw1", "r1")
  \/ \E op \in KeyOps : \E arg \in KeyArgs(op) : StartOp("p1", op, arg, "r1")
  \/ ServerHandle("p1")
  \/ Continue("p1")
  \/ KeyResolved("p1")
  \/ \E l \in Listeners \cup FaultyListeners : On("masterKeyRequest", l)

SpecListen == Init /\ [][NextListen]_vars

----------------------------------------------------------------------------
(* Passwords: one caller who creates the master key, indexes an attribute,
   writes and reads one document and changes the password, with a listener
   that unwraps with either password; cached keys expire *)

RoundArgs(op) ==
  CASE op \in {"insert", "update"} -> {d \in Docs : d.id = "foo" /\ d.indexedKey = "v1"}
    [] op = "get" -> {Str("foo")}
    [] op = "find" -> {[has |-> Str("indexedKey")]}
    [] op = "changeMasterKeyPassword" -> {Str(pw) : pw \in Passwords}

NextRound ==
  \/ \E pw \in Passwords : CreateMasterKey("p1", pw, "r1")
  \/ \E op \in KeyOps \ {"delete"} :
       \E arg \in RoundArgs(op) : StartOp("p1", op, arg, "r1")
  \/ ServerHandle("p1")
  \/ Continue("p1")
  \/ KeyResolved("p1")
  \/ \E pw \in Passwords :
       On("masterKeyRequest", [type |-> "function", password |-> pw])
  \/ EnsureIndex(Str("indexedKey"))
  \/ \E t \in timers : TimerFire(t)
  \/ \E d \in TickSteps : Tick(d)

SpecRound == Init /\ [][NextRound]_vars

----------------------------------------------------------------------------
(* Argument checks of insert and update: one caller who hands in documents
   with and without a string id; no listener, the cached key does not expire *)

NextValid ==
  \/ CreateMasterKey("p1", "pw1", "r1")
  \/ \E op \in {"insert", "update"} :
       \E doc \in OddDocs \cup KeyArgs("insert") : StartOp("p1", op, doc, "r1")
  \/ \E op \in {"get", "delete"} : StartOp("p1", op, Str("foo"), "r1")
  \/ ServerHandle("p1")
  \/ Continue("p1")

SpecValid == Init /\ [][NextValid]_vars

----------------------------------------------------------------------------
(* getRemoteStorage: two callers, at once or one after the other *)

NextRegistry ==
  \/ \E c \in Callers, accountId \in AccountIdArgs : GetRemoteStorage(c, accountId)
  \/ \E c \in Callers : StoreGot(c)
  \/ \E c \in Callers : StoreCreated(c)
  \/ \E c \in Callers : StoreGotAgain(c)
  \/ \E c \in Callers : UseInstance(c, "indexedKey", MasterKeyOf(1))

SpecRegistry == InitCache /\ [][NextRegistry]_vars

----------------------------------------------------------------------------
(* Corrupted records: one caller who writes two indexed documents and reads
   them back with get and find, while stored records get corrupted; the cached
   key does not expire *)

NextTamper ==
  \/ CreateMasterKey("p1", "pw1", "r1")
  \/ EnsureIndex(Str("indexedKey"))
  \/ \E doc \in {d \in Docs : d.indexedKey = "v1"} : StartOp("p1", "insert", doc, "r1")
  \/ StartOp("p1", "find", [has |-> Str("indexedKey")], "r1")
  \/ StartOp("p1", "get", Str("foo"), "r1")
  \/ ServerHandle("p1")
  \/ Continue("p1")
  \/ \E d \in srvDocs, kind \in Corruptions : Tamper(d, kind)

SpecTamper == InitCache /\ [][NextTamper]_vars

----------------------------------------------------------------------------
(* Failing transport: one caller, every operation, each request either handled
   by the server or failed by the transport; the cached key does not expire *)

NextFail ==
  \/ CreateMasterKey("p1", "pw1", "r1")
  \/ \E op \in KeyOps : \E arg \in KeyArgs(op) : StartOp("p1", op, arg, "r1")
  \/ ServerHandle("p1")
  \/ \E status \in FailureStatuses : TransportFails("p1", status)
  \/ Continue("p1")

SpecFail == InitCache /\ [][NextFail]_vars

----------------------------------------------------------------------------
(* Blinded addressing: one caller who writes, reads, deletes and finds
   documents with one indexed attribute; the cached key does not expire *)

NextBlind ==
  \/ CreateMasterKey("p1", "pw1", "r1")
  \/ EnsureIndex(Str("indexedKey"))
  \/ \E op \in {"insert", "update"} : \E doc \in FindDocs : StartOp("p1", op, doc, "r1")
  \/ \E op \in {"get", "delete"} : \E id \in Ids : StartOp("p1", op, Str(id), "r1")
  \/ \E v \in {"v1", "v2"} :
       StartOp("p1", "find", [equals |-> Obj(<<<<"indexedKey", v>>>>)], "r1")
  \/ ServerHandle("p1")
  \/ Continue("p1")

SpecBlind == InitCache /\ [][NextBlind]_vars

----------------------------------------------------------------------------
(* Keys in the cache: one caller, one document, and a listener that responds
   with a key from unwrapWithPassword or with one it constructed itself; the
   cached key expires *)

NextRaw ==
  \/ CreateMasterKey("p1", "pw1", "r1")
  \/ \E op \in {"get", "changeMasterKeyPassword"} :
       \E arg \in KeyArgs(op) : StartOp("p1", op, arg, "r1")
  \/ ServerHandle("p1")
  \/ Continue("p1")
  \/ KeyResolved("p1")
  \/ \E l \in Listeners \cup RawListeners : On("masterKeyRequest", l)
  \/ \E t \in timers : TimerFire(t)
  \/ \E d \in TickSteps : Tick(d)

SpecRaw == Init /\ [][NextRaw]_vars

----------------------------------------------------------------------------
(* DataHubService alone: configurations are created and queried, one call at
   a time *)

NextHubs ==
  \/ \E op \in HubOps : \E arg \in HubArgs(op) : HubStart(op, arg)
  \/ HubServerHandle
  \/ HubContinue

SpecHubs == InitCache /\ [][NextHubs]_vars

----------------------------------------------------------------------------
(* Listener invocations: one caller who writes two indexed documents, reads,
   deletes and finds them, with one listener whose keys last 1 ms or the
   default; the cached key expires *)

NextCalls ==
  \/ CreateMasterKey("p1", "pw1", "r1")
  \/ EnsureIndex(Str("indexedKey"))
  \/ \E op \in {"insert", "update"} :
       \E doc \in {d \in Docs : d.indexedKey = "v1"} : StartOp("p1", op, doc, "r1")
  \/ \E op \in {"get", "delete"} : StartOp("p1", op, Str("foo"), "r1")
  \/ StartOp("p1", "find", [has |-> Str("indexedKey")], "r1")
  \/ ServerHandle("p1")
  \/ Continue("p1")
  \/ KeyResolved("p1")
  \/ \E l \in {k \in Listeners : k.password = "pw1"} : On("masterKeyRequest", l)
  \/ \E t \in timers : TimerFire(t)
  \/ \E d \in TickSteps : Tick(d)

SpecCalls == InitCache /\ [][NextCalls]_vars

----------------------------------------------------------------------------
(* Concurrent key requests: two callers whose gets overlap, and a listener
   whose responses differ in their timeout; the cached key expires *)

NextCoalesce ==
  \/ \E p \in Procs : StartOp(p, "get", Str("foo"), "r1")
  \/ \E p \in Procs : ServerHandle(p)
  \/ \E p \in Procs : Continue(p)
  \/ \E p \in Procs : KeyResolved(p)
  \/ \E l \in VaryingListeners : On("masterKeyRequest", l)
  \/ \E t \in timers : TimerFire(t)
  \/ \E d \in TickSteps : Tick(d)

SpecCoalesce == Init /\ [][NextCoalesce]_vars

----------------------------------------------------------------------------
(* Silent listeners: one caller, every operation, one document, and a listener
   that returns without having called respondWith; the cached key expires.
   The continuation of `await result` is a microtask, which the runtime
   always runs. *)

NextSilent ==
  \/ CreateMasterKey("p1", "pw1", "r1")
  \/ \E op \in KeyOps : \E arg \in KeyArgs(op) : StartOp("p1", op, arg, "r1")
  \/ ServerHandle("p1")
  \/ Continue("p1")
  \/ KeyResolved("p1")
  \/ \E l \in SilentListeners : On("masterKeyRequest", l)
  \/ \E t \in timers : TimerFire(t)
  \/ \E d \in TickSteps : Tick(d)

SpecSilent == Init /\ [][NextSilent]_vars /\ WF_vars(KeyResolved("p1"))

----------------------------------------------------------------------------
(* Argument checks and the key cache: one caller who hands valid and invalid
   documents to insert and update and valid and invalid filters to find, with
   and without a listener; the cached key expires *)

NextPrecede ==
  \/ CreateMasterKey("p1", "pw1", "r1")
  \/ \E op \in {"insert", "update"} :
       \E doc \in (OddDocs \ {[type |-> "object", id |-> "", indexedKey |-> "v1"]})
                     \cup KeyArgs("insert") :
         StartOp("p1", op, doc, "r1")
  \/ \E filter \in InvalidFilters \cup {[has |-> Str("indexedKey")]} :
       StartOp("p1", "find", filter, "r1")
  \/ ServerHandle("p1")
  \/ Continue("p1")
  \/ KeyResolved("p1")
  \/ On("masterKeyRequest", [type |-> "function", password |-> "pw1"])
  \/ \E t \in timers : TimerFire(t)
  \/ \E d \in TickSteps : Tick(d)

SpecPrecede == Init /\ [][NextPrecede]_vars

----------------------------------------------------------------------------
(* Substituted records: one caller who inserts the documents and reads them
   back with get, while the server exchanges the bodies of the records it
   stores; the cached key does not expire *)

NextSwap ==
  \/ CreateMasterKey("p1", "pw1", "r1")
  \/ \E doc \in {d \in Docs : d.indexedKey # Undefined} : StartOp("p1", "insert", doc, "r1")
  \/ \E id \in Ids : StartOp("p1", "get", Str(id), "r1")
  \/ ServerHandle("p1")
  \/ Continue("p1")
  \/ \E d \in srvDocs, e \in srvDocs : Substitute(d, e)

SpecSwap == InitCache /\ [][NextSwap]_vars

----------------------------------------------------------------------------
(* Single values and one-element arrays: two callers who call find with a
   name or an object, alone or as the one element of an array; the cached key
   does not expire *)

SingleFilters ==
  EmptyNameFilters
    \cup {[has |-> Str("indexedKey")], [has |-> Arr(<<Str("indexedKey")>>)],
          [equals |-> Obj(<<<<"indexedKey", "v1">>>>)],
          [equals |-> Arr(<<Obj(<<<<"indexedKey", "v1">>>>)>>)]}

NextSingle ==
  \/ CreateMasterKey("p1", "pw1", "r1")
  \/ \E p \in Procs, filter \in SingleFilters : StartOp(p, "find", filter, "r1")
  \/ \E p \in Procs : ServerHandle(p)
  \/ \E p \in Procs : Continue(p)

SpecSingle == InitCache /\ [][NextSingle]_vars

----------------------------------------------------------------------------
(* Properties *)

\* operation p calls _getMasterKey in this step
AsksKey(p) ==
  \/ procs'[p].asked > procs[p].asked
  \/ CanStart(p) /\ procs'[p] # procs[p] /\ procs'[p].asked > 0

\* the number of listener invocations operation p makes in this step
ListenerCalls(p) ==
  IF CanStart(p) THEN procs'[p].calls ELSE procs'[p].calls - procs[p].calls

\* operation p goes on with master key `key` after this step: its next request
\* is built by code holding that key, or (get and find, after their response)
\* the results were decrypted
GoesOnWith(p, key) ==
  \/ procs'[p].pc = "req" /\ procs'[p].masterKey = key
  \/ procs'[p].pc = "done" /\ procs'[p].stage = 2 /\ procs'[p].result.type = "resolved"

\* the listener's promise of operation p resolves in this step, to `key`
ListenerResolves(p, key) ==
  /\ procs[p].pc = "keyResp"
  /\ procs'[p] # procs[p]
  /\ procs[p].msg.status = 200
  /\ listener \in Listeners
  /\ procs[p].msg.data.encrypted_key.under.password = listener.password
  /\ key = MasterKeyOf(procs[p].msg.data.encrypted_key.wrapped)

\* C1: with an empty key cache and no listener registered, an operation that
\* asks for the master key (get, insert, update, delete, find with a valid
\* filter, changeMasterKeyPassword) rejects with NotFoundError 'Master key not
\* found.' and leaves the cache empty.
C1_NoKeyNoListener ==
  [][\A p \in Procs :
       (keyCache.masterKey = Null /\ listener = Null /\ AsksKey(p))
         => /\ procs'[p].pc = "done"
            /\ procs'[p].result =
                 Rejected([type |-> "error", name |-> "NotFoundError",
                           message |-> "Master key not found."])
            /\ keyCache'.masterKey = Null]_vars

\* changeMasterKeyPassword has been rejected this way although the server holds
\* a wrapped key
C1_Witness ==
  /\ procs["p1"].pc = "done"
  /\ procs["p1"].op = "changeMasterKeyPassword"
  /\ procs["p1"].asked = 1
  /\ procs["p1"].result = Rejected(MasterKeyNotFound)
  /\ keyCache.masterKey = Null
  /\ listener = Null
  /\ srvMasterKey # Null

\* C2: with an empty key cache and a listener registered, an operation that
\* asks for the master key invokes the listener with an event named
\* 'MasterKeyRequest' carrying the facade's accountId and waits, the cache
\* untouched; when the listener's promise resolves, the resolved MasterKey is
\* cached with the resolved timeout (60000 ms when none is given), a timer of
\* that delay is armed, and the operation goes on with that key.
C2_ListenerSuppliesKey ==
  [][\A p \in Procs :
       /\ (keyCache.masterKey = Null /\ listener # Null /\ AsksKey(p))
            => /\ procs'[p].pc = "keyReq"
               /\ ListenerCalls(p) >= 1
               /\ procs'[p].event = [name |-> "MasterKeyRequest", accountId |-> "test"]
               /\ procs'[p].result = Pending
               /\ keyCache' = keyCache
       /\ \A key \in {MasterKeyOf(s) : s \in 0..MaxKeys} :
            ListenerResolves(p, key)
              => LET timeout == IF "timeout" \in DOMAIN listener
                                  THEN listener.timeout ELSE 60000
                 IN  /\ keyCache'.masterKey = key
                     /\ keyCache'.expiration.timeout = timeout
                     /\ [id |-> keyCache'.timerId, remaining |-> timeout] \in timers'
                     /\ GoesOnWith(p, key)]_vars

\* an insert whose key came from a listener that gave no timeout is on its way
\* to the server, the key cached for 60000 ms
C2_Witness ==
  /\ procs["p1"].op = "insert"
  /\ procs["p1"].pc = "req"
  /\ procs["p1"].calls = 1
  /\ procs["p1"].msg.body.id = Blind(keyCache.masterKey, "foo")
  /\ keyCache.expiration.timeout = 60000
  /\ cacheEvent = "update"
  /\ created.resolved = 0

\* C3: with a master key cached, an operation that asks for the key gets the
\* cached key without the listener being invoked, and the expiry timer is
\* rearmed with the timeout the last update stored (sliding TTL): the cached key
\* and timeout stay, and the only pending timer has the full timeout to run.
C3_CacheHit ==
  [][\A p \in Procs :
       (keyCache.masterKey # Null /\ AsksKey(p))
         => /\ ListenerCalls(p) = 0
            /\ GoesOnWith(p, keyCache.masterKey)
            /\ keyCache'.masterKey = keyCache.masterKey
            /\ keyCache'.expiration = keyCache.expiration
            /\ timers' = {[id |-> keyCache'.timerId,
                           remaining |-> keyCache.expiration.timeout]}
            /\ elapsed' = 0]_vars

\* a get found the key in the cache both times it asked (before its request
\* and after the response), no listener call; the key had been cached by an
\* earlier operation's listener for 1 ms, and the timer has that 1 ms to run
C3_Witness ==
  /\ procs["p1"].op = "get"
  /\ procs["p1"].pc = "done"
  /\ procs["p1"].asked = 2
  /\ procs["p1"].calls = 0
  /\ procs["p1"].result.type = "resolved"
  /\ cacheEvent = "resetTimeout"
  /\ keyCache.masterKey # Null
  /\ keyCache.expiration.timeout = 1
  /\ timers = {[id |-> keyCache.timerId, remaining |-> 1]}

\* C4: the cached key lives for the stored timeout t counted from the last
\* update or resetTimeout, and no longer: while a key is cached no more than
\* t ms have passed since that call (once more than t ms have passed without
\* either call the key is null), and the expiry timer never clears the cache
\* sooner than t ms after that call.
C4_KeyTimeToLive ==
  /\ keyCache.masterKey # Null => elapsed <= keyCache.expiration.timeout
  /\ cacheEvent = "expired"
       => /\ keyCache.masterKey = Null
          /\ elapsed >= keyCache.expiration.timeout

\* update(k, 2), time passed, resetTimeout within the 2 ms, and 2 ms after that
\* call the key is still cached, its timer due
C4_Witness ==
  /\ cacheEvent = "resetTimeout"
  /\ keyCache.masterKey # Null
  /\ keyCache.expiration.timeout = 2
  /\ elapsed = 2
  /\ timers = {[id |-> keyCache.timerId, remaining |-> 0]}

\* C5: whenever the key cache holds a key, the timer the cache last armed is
\* pending (it has not fired), and it is the only pending timer; its firing
\* clears the key.
C5_KeyHasTimer ==
  keyCache.masterKey # Null
    => /\ \E t \in timers : t.id = keyCache.timerId
       /\ Cardinality(timers) = 1
       /\ \A t \in timers : t.remaining <= keyCache.expiration.timeout

\* a key cached by update with the default timeout, 1 ms later: the one
\* pending timer is the one that update armed
C5_Witness ==
  /\ cacheEvent = "update"
  /\ keyCache.masterKey = MasterKeyOf(2)
  /\ keyCache.expiration.timeout = DEFAULT_KEY_TIMEOUT
  /\ timers = {[id |-> keyCache.timerId, remaining |-> DEFAULT_KEY_TIMEOUT - 1]}
  /\ elapsed = 1

\* C6: expiry of the cached key is no error. With a listener registered, no
\* step of an operation fails it with 'Master key not found.'; the first
\* operation that asks for the key after the timer has cleared it invokes the
\* listener (the masterKeyRequest event is emitted again) and stays pending;
\* and when the listener's promise then resolves, the operation goes on with
\* the new key, which is cached.
C6_ExpiryIsNoError ==
  [][\A p \in Procs :
          /\ (listener # Null /\ procs'[p] # procs[p])
               => procs'[p].result # Rejected(MasterKeyNotFound)
          /\ (cacheEvent = "expired" /\ listener # Null /\ AsksKey(p))
               => /\ procs'[p].pc = "keyReq"
                  /\ ListenerCalls(p) >= 1
                  /\ procs'[p].event.name = "MasterKeyRequest"
                  /\ procs'[p].result = Pending
          /\ \A key \in {MasterKeyOf(s) : s \in 0..MaxKeys} :
               (cacheEvent = "expired" /\ ListenerResolves(p, key))
                 => /\ GoesOnWith(p, key)
                    /\ keyCache'.masterKey = key
                    /\ cacheEvent' = "update"]_vars

\* a get whose key expired while its request was under way: the listener was
\* invoked a second time and the get resolved with the document
C6_Witness ==
  /\ procs["p1"].op = "get"
  /\ procs["p1"].pc = "done"
  /\ procs["p1"].calls = 2
  /\ procs["p1"].result = Resolved([type |-> "object", id |-> "foo", indexedKey |-> "v1"])
  /\ keyCache.masterKey # Null

\* operation p is a createMasterKey whose PUT the server handles in this step
CreatePutHandled(p) ==
  /\ procs[p].op = "createMasterKey"
  /\ procs[p].pc = "req"
  /\ procs'[p].pc = "resp"

\* operation p is a createMasterKey that resumes in this step after its PUT was
\* answered with `status`
CreateAnswered(p, status) ==
  /\ procs[p].op = "createMasterKey"
  /\ procs[p].pc = "resp"
  /\ procs'[p].pc = "done"
  /\ procs[p].msg.status = status

\* operation p is a createMasterKey that resumes in this step after its PUT
\* succeeded
CreateSucceeded(p) ==
  /\ procs[p].op = "createMasterKey"
  /\ procs[p].pc = "resp"
  /\ procs'[p].pc = "done"
  /\ procs[p].msg.status \in 200..299

\* the wrapped key createMasterKey call p sends
WrappedKeyOf(p) ==
  WrapWithPassword(procs[p].masterKey, procs[p].arg.value, procs[p].rand)

\* C7: when the server holds no master key, createMasterKey's PUT is accepted
\* and the server then stores the password-wrapped form of the generated key;
\* the call resolves to true and the key cache then holds that same generated
\* key; and a createMasterKey call writes the cache in no step but the one that
\* follows its PUT's success.
C7_CreateMasterKey ==
  [][\A p \in Procs :
       /\ (CreatePutHandled(p) /\ srvMasterKey = Null)
            => /\ procs'[p].msg.status \in 200..299
               /\ srvMasterKey' = WrappedKeyOf(p)
               /\ UnwrapWithPassword(procs[p].arg.value, srvMasterKey')
                    = procs[p].masterKey
       /\ CreateSucceeded(p)
            => /\ procs'[p].result = Resolved(Bool(TRUE))
               /\ keyCache'.masterKey = procs[p].masterKey
               /\ srvMasterKey = WrappedKeyOf(p)
               /\ cacheEvent' = "update"
       /\ (procs'[p].op = "createMasterKey" /\ procs'[p] # procs[p]
             /\ keyCache' # keyCache)
            => /\ procs[p].pc = "resp"
               /\ procs[p].msg.status \in 200..299]_vars

\* createMasterKey under "pw2" has resolved to true on a server that held no
\* key: the server stores the wrapped form of the generated key and the cache
\* holds that key
C7_Witness ==
  /\ procs["p1"].op = "createMasterKey"
  /\ procs["p1"].pc = "done"
  /\ procs["p1"].result = Resolved(Bool(TRUE))
  /\ srvMasterKey = WrapWithPassword(MasterKeyOf(1), "pw2", "r1")
  /\ keyCache.masterKey = MasterKeyOf(1)
  /\ created = [resolved |-> 1, refused |-> 0]

\* the createMasterKey calls whose PUT has been accepted and which have not
\* resumed yet
CreatesAccepted ==
  {p \in Procs : /\ procs[p].op = "createMasterKey"
                 /\ procs[p].pc = "resp"
                 /\ procs[p].msg.status \in 200..299}

\* the createMasterKey calls that have not been answered yet
CreatesUnanswered ==
  {p \in Procs : procs[p].op = "createMasterKey" /\ procs[p].pc = "req"}

\* the server held no master key when the facade was constructed
ServerStartedEmpty ==
  srvMasterKey = Null \/ srvMasterKey.encrypted_key.wrapped # MasterKeyOf(0).master

\* C8: a createMasterKey whose PUT finds a master key on the server is answered
\* 304, rejects with an error named DuplicateError and changes neither the
\* server's wrapped key nor the key cache; among any number of createMasterKey
\* calls, successive or concurrent, at most one succeeds, and exactly one once
\* every call is answered if the server started without a key (none if it
\* started with one).
C8_DuplicateMasterKey ==
  /\ [](/\ created.resolved + Cardinality(CreatesAccepted)
             = IF srvMasterKey # Null /\ ServerStartedEmpty THEN 1 ELSE 0
        /\ (CreatesUnanswered = {} /\ ServerStartedEmpty
              /\ created.resolved + created.refused + Cardinality(CreatesAccepted) > 0)
             => created.resolved + Cardinality(CreatesAccepted) = 1)
  /\ [][\A p \in Procs :
          /\ (CreatePutHandled(p) /\ srvMasterKey # Null)
               => /\ procs'[p].msg.status = 304
                  /\ srvMasterKey' = srvMasterKey
                  /\ keyCache' = keyCache
          /\ CreateAnswered(p, 304)
               => /\ procs'[p].result.type = "rejected"
                  /\ procs'[p].result.error.name = "DuplicateError"
                  /\ UNCHANGED <<keyCache, timers, srvMasterKey>>]_vars

\* two createMasterKey calls on a server without a key: one has resolved, the other has been rejected with DuplicateError, and the
\* server and the cache hold the key of the call that succeeded
C8_Witness ==
  /\ procs["p1"].op = "createMasterKey"
  /\ procs["p2"].op = "createMasterKey"
  /\ procs["p1"].result = Resolved(Bool(TRUE))
  /\ procs["p2"].result = Rejected(Error("DuplicateError", "Duplicate error."))
  /\ created = [resolved |-> 1, refused |-> 1]
  /\ srvMasterKey = WrapWithPassword(MasterKeyOf(1), "pw1", "r1")
  /\ keyCache.masterKey = MasterKeyOf(1)

\* what JSON.parse(JSON.stringify(doc)) is for a document the callers write
AfterJsonRoundTrip(doc) ==
  IF doc.indexedKey = Undefined THEN [type |-> "object", id |-> doc.id] ELSE doc

\* the master key the account's documents are encrypted under
AccountKey == MasterKeyOf(srvMasterKey.encrypted_key.wrapped)

\* the records the server holds for cleartext id `id`
StoredFor(id) == StoredDoc(srvDocs, Blind(AccountKey, id))

\* the server handles in this step the request of operation p, an `op`
DocRequestHandled(p, op) ==
  /\ procs[p].op = op
  /\ procs[p].pc = "req"
  /\ procs'[p].pc = "resp"

\* operation p, an `op`, resumes in this step after its request was answered
\* with `status`, and ends
DocAnswered(p, op, status) ==
  /\ procs[p].op = op
  /\ procs[p].pc = "resp"
  /\ procs'[p].pc = "done"
  /\ procs[p].msg.status = status

\* operation p, an insert or update, resumes in this step after its request
\* succeeded
WriteSucceeded(p) ==
  /\ procs[p].op \in {"insert", "update"}
  /\ procs[p].pc = "resp"
  /\ procs'[p].pc = "done"
  /\ procs[p].msg.status \in 200..299

\* C9: a get that had the master key at hand returns the document last written
\* under its id by a successful insert or update, as it is after a JSON round
\* trip; the server holds exactly one record for each written id, which
\* decrypts to that document; an update is accepted whether or not a record
\* exists, adding one record when none exists and replacing it when one does;
\* an insert of an id not stored is accepted; both then resolve.
C9_WriteThenGet ==
  /\ [](\A p \in Procs :
          (/\ procs[p].op = "get"
           /\ procs[p].pc = "done"
           /\ written[procs[p].arg.value] # Null
           /\ procs[p].result # Rejected(MasterKeyNotFound))
            => procs[p].result
                 = Resolved(AfterJsonRoundTrip(written[procs[p].arg.value])))
  /\ [](\A id \in Ids :
          written[id] # Null
            => /\ srvMasterKey # Null
               /\ Cardinality(StoredFor(id)) = 1
               /\ \A d \in StoredFor(id) :
                    DecryptDoc(d, AccountKey) = AfterJsonRoundTrip(written[id]))
  /\ [][\A p \in Procs :
          /\ DocRequestHandled(p, "update")
               => /\ procs'[p].msg.status \in 200..299
                  /\ written' = [written EXCEPT ![procs[p].arg.id] = procs[p].arg]
                  /\ Cardinality(srvDocs')
                       = Cardinality(srvDocs)
                           + (IF written[procs[p].arg.id] = Null THEN 1 ELSE 0)
          /\ (DocRequestHandled(p, "insert") /\ written[procs[p].arg.id] = Null)
               => /\ procs'[p].msg.status \in 200..299
                  /\ written' = [written EXCEPT ![procs[p].arg.id] = procs[p].arg]
          /\ WriteSucceeded(p) => procs'[p].result.type = "resolved"]_vars

\* a get of "foo" has returned {id: "foo"}: the document last written under
\* "foo" has an undefined indexedKey, which the JSON round trip leaves out,
\* while another document is stored under "bar"
C9_Witness ==
  /\ procs["p1"].op = "get"
  /\ procs["p1"].pc = "done"
  /\ procs["p1"].arg = Str("foo")
  /\ written["foo"] = [type |-> "object", id |-> "foo", indexedKey |-> Undefined]
  /\ written["bar"] = [type |-> "object", id |-> "bar", indexedKey |-> "v2"]
  /\ procs["p1"].result = Resolved([type |-> "object", id |-> "foo"])

\* C10: an insert whose document's id is already stored is answered 409 and
\* rejects with an error named DuplicateError; neither the server's records
\* nor the document last written under that id change, so the record stored
\* for the id still decrypts to the content stored before.
C10_DuplicateInsert ==
  /\ [](\A p \in Procs :
          (/\ procs[p].op = "insert"
           /\ procs[p].pc = "done"
           /\ procs[p].result = Rejected(Error("DuplicateError", "Duplicate error.")))
            => /\ written[procs[p].arg.id] # Null
               /\ \A d \in StoredFor(procs[p].arg.id) :
                    DecryptDoc(d, AccountKey)
                      = AfterJsonRoundTrip(written[procs[p].arg.id]))
  /\ [][\A p \in Procs :
          /\ (DocRequestHandled(p, "insert") /\ written[procs[p].arg.id] # Null)
               => /\ procs'[p].msg.status = 409
                  /\ srvDocs' = srvDocs
                  /\ written' = written
          /\ DocAnswered(p, "insert", 409)
               => /\ procs'[p].result.type = "rejected"
                  /\ procs'[p].result.error.name = "DuplicateError"
                  /\ UNCHANGED <<srvDocs, written>>]_vars

\* an insert of {id: "foo", indexedKey: "v2"} was rejected with DuplicateError
\* while {id: "foo", indexedKey: "v1"} is what is stored under "foo"
C10_Witness ==
  /\ procs["p1"].op = "insert"
  /\ procs["p1"].pc = "done"
  /\ procs["p1"].arg = [type |-> "object", id |-> "foo", indexedKey |-> "v2"]
  /\ procs["p1"].result = Rejected(Error("DuplicateError", "Duplicate error."))
  /\ written["foo"] = [type |-> "object", id |-> "foo", indexedKey |-> "v1"]

\* C11: a successful update resolves to the stored encrypted document, an
\* object carrying the document's id and jwe.
C11_UpdateReturnsEncrypted ==
  \A p \in Procs :
    (/\ procs[p].op = "update"
     /\ procs[p].pc = "done"
     /\ procs[p].result.type = "resolved")
      => /\ procs[p].result.value.type = "object"
         /\ "id" \in DOMAIN procs[p].result.value
         /\ "jwe" \in DOMAIN procs[p].result.value

\* C12: a get of an id under which no document is stored is answered 404 and
\* rejects with the error named NotFoundError ('Document not found'); a get of
\* such an id never resolves.
C12_GetMissing ==
  /\ [](\A p \in Procs :
          (/\ procs[p].op = "get"
           /\ procs[p].pc = "done"
           /\ written[procs[p].arg.value] = Null)
            => procs[p].result.type = "rejected")
  /\ [][\A p \in Procs :
          /\ (DocRequestHandled(p, "get") /\ written[procs[p].arg.value] = Null)
               => procs'[p].msg.status = 404
          /\ DocAnswered(p, "get", 404)
               => /\ procs'[p].result.type = "rejected"
                  /\ procs'[p].result.error.name = "NotFoundError"
                  /\ procs'[p].result.error.message = "Document not found"]_vars

\* a get of "foo" was rejected with NotFoundError while nothing is stored under
\* "foo" and a document is stored under "bar"
C12_Witness ==
  /\ procs["p1"].op = "get"
  /\ procs["p1"].pc = "done"
  /\ procs["p1"].arg = Str("foo")
  /\ procs["p1"].result = Rejected(Error("NotFoundError", "Document not found"))
  /\ written["foo"] = Null
  /\ written["bar"] # Null

\* C13: a delete of a stored id is accepted, removes the record and resolves
\* to true; a delete of an id not stored is answered 404 and resolves to false,
\* the server unchanged. Once a delete has resolved to true nothing is stored
\* under its id, so that a get of the id is then answered 404 and rejects with
\* NotFoundError and another delete resolves to false.
C13_Delete ==
  /\ [](\A p \in Procs :
          (/\ procs[p].op = "delete"
           /\ procs[p].pc = "done"
           /\ procs[p].result = Resolved(Bool(TRUE)))
            => /\ written[procs[p].arg.value] = Null
               /\ StoredFor(procs[p].arg.value) = {})
  /\ [][\A p \in Procs :
          /\ (DocRequestHandled(p, "delete") /\ written[procs[p].arg.value] # Null)
               => /\ procs'[p].msg.status \in 200..299
                  /\ written' = [written EXCEPT ![procs[p].arg.value] = Null]
                  /\ Cardinality(srvDocs') = Cardinality(srvDocs) - 1
          /\ (DocRequestHandled(p, "delete") /\ written[procs[p].arg.value] = Null)
               => /\ procs'[p].msg.status = 404
                  /\ UNCHANGED <<srvDocs, written>>
          /\ (procs[p].op = "delete" /\ procs[p].pc = "resp" /\ procs'[p].pc = "done")
               => procs'[p].result
                    = Resolved(Bool(procs[p].msg.status \in 200..299))
          /\ (DocRequestHandled(p, "get") /\ written[procs[p].arg.value] = Null)
               => procs'[p].msg.status = 404
          /\ DocAnswered(p, "get", 404)
               => procs'[p].result
                    = Rejected(Error("NotFoundError", "Document not found"))]_vars

\* a delete of "foo" has resolved to true: nothing is stored under "foo" any
\* more, while the document under "bar" is still stored
C13_Witness ==
  /\ procs["p1"].op = "delete"
  /\ procs["p1"].pc = "done"
  /\ procs["p1"].arg = Str("foo")
  /\ procs["p1"].result = Resolved(Bool(TRUE))
  /\ written["foo"] = Null
  /\ written["bar"] # Null
  /\ Cardinality(srvDocs) = 1

\* the attribute names a has filter lists
HasNames(filter) ==
  IF filter.has.type = "string" THEN {filter.has.value}
  ELSE {filter.has.items[i].value : i \in DOMAIN filter.has.items}

\* the objects an equals filter lists, each as its set of (key, value) pairs
EqualsObjects(filter) ==
  IF filter.equals.type = "object"
    THEN {{filter.equals.entries[j] : j \in DOMAIN filter.equals.entries}}
    ELSE {{filter.equals.items[i].entries[j] :
             j \in DOMAIN filter.equals.items[i].entries} :
          i \in DOMAIN filter.equals.items}

\* the attributes the document stored under `id` was written with: the own
\* keys of the document that were in the index set when it was encrypted
CarriedAttributes(id) == writtenIdx[id] \cap {"id", "indexedKey"}

\* the value of attribute `key` of the document stored under `id`
WrittenValue(id, key) == IF key = "id" THEN written[id].id ELSE written[id].indexedKey

\* the documents a resolved find returned, as a set
FoundDocs(p) ==
  {procs[p].result.value.items[i] : i \in DOMAIN procs[p].result.value.items}

\* operation p is a find with a filter of field `field` that has ended
\* otherwise than for want of a master key
FindEnded(p, field) ==
  /\ procs[p].op = "find"
  /\ procs[p].pc = "done"
  /\ DOMAIN procs[p].arg = {field}
  /\ ValidateFind(procs[p].arg) = Null
  /\ procs[p].result # Rejected(MasterKeyNotFound)

\* C14: find({has}) resolves to exactly the stored documents that carry every
\* listed attribute, each once: those written while the attribute was in the
\* index set.
C14_FindHas ==
  \A p \in Procs :
    FindEnded(p, "has")
      => LET ids == {id \in Ids : /\ written[id] # Null
                                  /\ HasNames(procs[p].arg) \subseteq CarriedAttributes(id)}
         IN  /\ procs[p].result.type = "resolved"
             /\ procs[p].result.value.type = "array"
             /\ FoundDocs(p) = {AfterJsonRoundTrip(written[id]) : id \in ids}
             /\ Len(procs[p].result.value.items) = Cardinality(ids)

\* 'indexedKey' is indexed, two documents were written with it, and
\* find({has: 'indexedKey'}) has returned both
C14_Witness ==
  /\ procs["p1"].op = "find"
  /\ procs["p1"].pc = "done"
  /\ procs["p1"].arg = [has |-> Str("indexedKey")]
  /\ indexes = {"indexedKey"}
  /\ procs["p1"].result.type = "resolved"
  /\ FoundDocs("p1") = {[type |-> "object", id |-> "foo", indexedKey |-> "v2"],
                        [type |-> "object", id |-> "bar", indexedKey |-> "v1"]}

\* C15: find({equals}) resolves to exactly the stored documents for which at
\* least one object of the filter has every one of its (key, value) pairs
\* among the attributes the document carries, each document once; a single
\* object counts as an array of one.
C15_FindEquals ==
  \A p \in Procs :
    FindEnded(p, "equals")
      => LET ids == {id \in Ids :
                       /\ written[id] # Null
                       /\ \E object \in EqualsObjects(procs[p].arg) :
                            \A pair \in object :
                              /\ pair[1] \in CarriedAttributes(id)
                              /\ WrittenValue(id, pair[1]) = pair[2]}
         IN  /\ procs[p].result.type = "resolved"
             /\ procs[p].result.value.type = "array"
             /\ FoundDocs(p) = {AfterJsonRoundTrip(written[id]) : id \in ids}
             /\ Len(procs[p].result.value.items) = Cardinality(ids)

\* find({equals: [{indexedKey: 'v1'}, {indexedKey: 'v2'}]}) has returned the
\* two documents stored, one matching the first object and one the second
C15_Witness ==
  /\ procs["p1"].op = "find"
  /\ procs["p1"].pc = "done"
  /\ procs["p1"].arg = [equals |-> Arr(<<Obj(<<<<"indexedKey", "v1">>>>),
                                         Obj(<<<<"indexedKey", "v2">>>>)>>)]
  /\ procs["p1"].result.type = "resolved"
  /\ FoundDocs("p1") = {[type |-> "object", id |-> "foo", indexedKey |-> "v2"],
                        [type |-> "object", id |-> "bar", indexedKey |-> "v1"]}

\* `v` is an object, or an array whose elements are all objects
ObjectOrObjects(v) ==
  \/ v.type = "object"
  \/ /\ v.type = "array"
     /\ \A i \in DOMAIN v.items : v.items[i].type = "object"

\* `v` is a string, or an array whose elements are all strings
StringOrStrings(v) ==
  \/ v.type = "string"
  \/ /\ v.type = "array"
     /\ \A i \in DOMAIN v.items : v.items[i].type = "string"

\* the filter defines both equals and has, or neither, or one of the wrong type
Malformed(filter) ==
  \/ {"equals", "has"} \subseteq DOMAIN filter
  \/ {"equals", "has"} \cap DOMAIN filter = {}
  \/ "equals" \in DOMAIN filter /\ ~ObjectOrObjects(filter.equals)
  \/ "has" \in DOMAIN filter /\ ~StringOrStrings(filter.has)

\* caller p calls `op` in this step
Calls(p, op) ==
  /\ CanStart(p)
  /\ procs'[p] # procs[p]
  /\ procs'[p].op = op

\* C16: a find whose filter defines both equals and has, or neither, or an
\* equals that is neither an object nor an array of objects, or a has that is
\* neither a string nor an array of strings, rejects at once with a validation
\* error (an Error when both or neither are defined, a TypeError for a wrong
\* type): it asks for no master key, sends no request and changes nothing.
C16_FindValidation ==
  [][\A p \in Procs :
       (Calls(p, "find") /\ Malformed(procs'[p].arg))
         => /\ procs'[p].pc = "done"
            /\ procs'[p].result.type = "rejected"
            /\ procs'[p].result.error.name
                 = IF Cardinality({"equals", "has"} \cap DOMAIN procs'[p].arg) = 1
                     THEN "TypeError" ELSE "Error"
            /\ procs'[p].asked = 0
            /\ procs'[p].msg = Null
            /\ UNCHANGED <<cacheVars, serverVars, indexes, listener>>]_vars

\* with the master key cached, a find with both equals and has was rejected
\* with the error saying that only one may be defined
C16_Witness ==
  /\ procs["p1"].op = "find"
  /\ procs["p1"].pc = "done"
  /\ {"equals", "has"} \subseteq DOMAIN procs["p1"].arg
  /\ procs["p1"].result
       = Rejected(Error("Error", "Only one of \"equals\" or \"has\" may be defined at once."))
  /\ keyCache.masterKey # Null

\* operation p, an insert or update, has its document encrypted in this step
\* and sends it
Encrypts(p) ==
  /\ procs'[p].op \in {"insert", "update"}
  /\ procs[p].pc # "req"
  /\ procs'[p].pc = "req"

\* C17: the encrypted document insert and update send carries exactly one
\* blinded attribute for each key that is both in the index set and an own key
\* of the document, its name the blinded key, and no other attribute.
C17_IndexedAttributes ==
  [][\A p \in Procs :
       Encrypts(p)
         => LET attributes == procs'[p].msg.body.attributes
                keys == indexes \cap {"id", "indexedKey"}
            IN  /\ Len(attributes) = Cardinality(keys)
                /\ {attributes[i].name : i \in DOMAIN attributes}
                     = {Blind(procs'[p].masterKey, k) : k \in keys}
                /\ \A i \in DOMAIN attributes :
                     attributes[i].value.hmac = procs'[p].masterKey.hmac]_vars

\* an insert is sending its encrypted document: of the document's keys only
\* indexedKey is indexed, 'other' is indexed and no key of the document, and
\* the encrypted document carries the one attribute of indexedKey
C17_Witness ==
  /\ procs["p1"].op = "insert"
  /\ procs["p1"].pc = "req"
  /\ indexes = {"indexedKey", "other"}
  /\ Len(procs["p1"].msg.body.attributes) = 1
  /\ procs["p1"].msg.body.attributes[1].name
       = Blind(procs["p1"].masterKey, "indexedKey")

\* C18: ensureIndex touches no stored record: the record stored under an id
\* carries the blinded names of the keys that were indexed when its document
\* was encrypted, whatever has been indexed since; so a find on an attribute
\* returns a stored document exactly if it was written (inserted, or written
\* again with update) after the attribute was indexed.
C18_IndexFutureWrites ==
  /\ [](\A id \in Ids :
          written[id] # Null
            => \A d \in StoredFor(id) :
                 AttributeNames(d)
                   = {Blind(AccountKey, k) : k \in CarriedAttributes(id)})
  /\ [](\A p \in Procs, a \in {"id", "indexedKey"} :
          (FindEnded(p, "has") /\ procs[p].arg.has = Str(a))
            => \A id \in Ids :
                 written[id] # Null
                   => (AfterJsonRoundTrip(written[id]) \in FoundDocs(p)
                         <=> a \in writtenIdx[id]))
  /\ [][/\ indexes' # indexes => UNCHANGED <<srvDocs, written, writtenIdx>>
        /\ \A p \in Procs :
             (DocRequestHandled(p, "update") \/ DocRequestHandled(p, "insert"))
               => \A d \in srvDocs' :
                    d.id = procs[p].msg.body.id
                      => \/ d = procs[p].msg.body
                         \/ /\ procs[p].op = "insert"
                            /\ d \in srvDocs]_vars

\* 'indexedKey' is indexed; "foo" was written before that and "bar" after it,
\* and find({has: 'indexedKey'}) has returned the document "bar" alone
C18_Witness ==
  /\ procs["p1"].op = "find"
  /\ procs["p1"].pc = "done"
  /\ procs["p1"].arg = [has |-> Str("indexedKey")]
  /\ "indexedKey" \in indexes
  /\ written["foo"] # Null
  /\ writtenIdx["foo"] = {}
  /\ writtenIdx["bar"] = {"indexedKey"}
  /\ procs["p1"].result
       = Resolved([type |-> "array",
                   items |-> <<[type |-> "object", id |-> "bar", indexedKey |-> "v1"]>>])

C20_OneListener ==
  [][/\ listener # Null => listener' = listener
     /\ listener' # listener
          => /\ listener' \in Listeners
             /\ returned' = This
             /\ UNCHANGED <<procs, indexes, cacheVars, serverVars, generated>>
     /\ (returned' # returned /\ returned' = This)
          => listener = Null /\ listener' # Null
     /\ (returned' # returned /\ returned'.type = "error")
          => UNCHANGED <<listener, procs, indexes, cacheVars, serverVars>>
     /\ (returned' # returned
           /\ returned' = Error("Error", "Only one listener is permitted."))
          => listener # Null]_vars

\* a listener using "pw1" is registered, the last call of on threw 'Only one
\* listener is permitted.', and an operation has obtained the key from the
\* registered listener
C20_Witness ==
  /\ listener = [type |-> "function", password |-> "pw1"]
  /\ returned = Error("Error", "Only one listener is permitted.")
  /\ procs["p1"].calls = 1
  /\ procs["p1"].pc = "done"
  /\ procs["p1"].result.type = "resolved"

\* the promise operation p's listener responded with resolves in this step
\* (the wrapped key it fetched has arrived), to a value whose masterKey is not
\* a MasterKey instance
ListenerResolvesOther(p) ==
  /\ procs[p].pc = "keyResp"
  /\ procs'[p] # procs[p]
  /\ procs[p].msg.status = 200
  /\ listener \in FaultyListeners

\* C21: when the promise given to event.respondWith resolves to a value whose
\* masterKey is not a MasterKey instance, the operation rejects with the
\* TypeError '"masterKey" must be a MasterKey instance.', sends nothing more,
\* and the key cache is not touched: it is as empty as it was.
C21_NotAMasterKey ==
  [][\A p \in Procs :
       ListenerResolvesOther(p)
         => /\ procs'[p].pc = "done"
            /\ procs'[p].result =
                 Rejected([type |-> "error", name |-> "TypeError",
                           message |-> "\"masterKey\" must be a MasterKey instance."])
            /\ keyCache.masterKey = Null
            /\ UNCHANGED <<keyCache, timers, cacheEvent>>]_vars

\* an insert has been rejected with that TypeError: its listener resolves to
\* the wrapped key the server holds, not unwrapped; the cache is empty
C21_Witness ==
  /\ listener \in FaultyListeners
  /\ listener.responds = "wrapped"
  /\ srvMasterKey # Null
  /\ procs["p1"].op = "insert"
  /\ procs["p1"].pc = "done"
  /\ procs["p1"].calls = 1
  /\ procs["p1"].result.type = "rejected"
  /\ procs["p1"].result.error.name = "TypeError"
  /\ keyCache.masterKey = Null

\* C22: the blinded value of an attribute is the blinding of the JSON form
\* {[attrKey]: attrValue}, in the documents insert and update send as in the
\* queries find sends; so within one equals object two different attribute
\* names carrying the same value have different blinded values.
C22_BlindedValueNamesKey ==
  \A p \in Procs :
    /\ (procs[p].op \in {"insert", "update"} /\ procs[p].pc = "req")
         => LET attributes == procs[p].msg.body.attributes
            IN  \A i \in DOMAIN attributes :
                  \E k \in {"id", "indexedKey"} :
                    /\ attributes[i].name = Blind(procs[p].masterKey, k)
                    /\ attributes[i].value
                         = Blind(procs[p].masterKey,
                                 Stringify([name \in {k} |->
                                              DocValue(procs[p].arg, k)]))
    /\ (procs[p].op = "find" /\ procs[p].pc = "req"
          /\ procs[p].arg = [equals |-> Obj(<<<<"indexedKey", "v1">>,
                                               <<"other", "v1">>>>)])
         => \A a, b \in procs[p].msg.body.equals[1] :
              a[1] # b[1] => a[2] # b[2]

\* the key createMasterKey generated for the account (the key of the earlier
\* session when the server started with one)
CreatedKey == IF ServerStartedEmpty THEN MasterKeyOf(1) ELSE MasterKeyOf(0)

\* C23: when a listener's getMasterKey (fetch of the wrapped key, then
\* unwrapWithPassword) uses the password the server's key is wrapped under,
\* the MasterKey it yields is the key createMasterKey generated: it is what
\* gets cached, every document written before decrypts under it to what was
\* written, and the ids and indexed attributes of those documents blind under
\* it to the tokens stored.
C23_PasswordRoundTrip ==
  [][\A p \in Procs :
       \A key \in {MasterKeyOf(s) : s \in 0..MaxKeys} :
         ListenerResolves(p, key)
           => /\ key = CreatedKey
              /\ keyCache'.masterKey = key
              /\ \A id \in Ids :
                   written[id] # Null
                     => \E d \in srvDocs :
                          /\ d.id = BlindId(id, keyCache'.masterKey)
                          /\ DecryptDoc(d, keyCache'.masterKey)
                               = AfterJsonRoundTrip(written[id])
                          /\ d.attributes
                               = CreateAttributes(written[id], keyCache'.masterKey,
                                                  writtenIdx[id])]_vars

\* the key was created under "pw2" and a document written with its indexed
\* attribute; a later get had to ask the listener, which unwrapped the key
\* with "pw2", and has returned the document
C23_Witness ==
  /\ srvMasterKey = WrapWithPassword(MasterKeyOf(1), "pw2", "r1")
  /\ created.resolved = 1
  /\ writtenIdx["foo"] = {"indexedKey"}
  /\ listener = [type |-> "function", password |-> "pw2"]
  /\ procs["p1"].op = "get"
  /\ procs["p1"].pc = "done"
  /\ procs["p1"].calls = 1
  /\ procs["p1"].result
       = Resolved([type |-> "object", id |-> "foo", indexedKey |-> "v1"])

\* the promise operation p's listener responded with settles in this step: the
\* wrapped key it fetched has arrived, wrapped under another password than the
\* listener's
ListenerUnwrapsWrongly(p) ==
  /\ procs[p].pc = "keyResp"
  /\ procs'[p] # procs[p]
  /\ procs[p].msg.status = 200
  /\ listener \in Listeners
  /\ procs[p].msg.data.encrypted_key.under.password # listener.password

\* C24: unwrapping the wrapped master key the server holds with a password
\* other than the one it is wrapped under yields an error and no MasterKey;
\* when a masterKeyRequest listener does so, the operation that asked for the
\* key rejects with that error and the key cache stays empty and untouched.
C24_WrongPassword ==
  /\ [](srvMasterKey # Null
          => \A pw \in Passwords :
               pw # srvMasterKey.encrypted_key.under.password
                 => /\ IsError(UnwrapWithPassword(pw, srvMasterKey))
                    /\ UnwrapWithPassword(pw, srvMasterKey) \notin MasterKeys)
  /\ [][\A p \in Procs :
          ListenerUnwrapsWrongly(p)
            => /\ procs'[p].pc = "done"
               /\ procs'[p].result.type = "rejected"
               /\ procs'[p].result.error.name = "OperationError"
               /\ keyCache.masterKey = Null
               /\ UNCHANGED <<keyCache, timers, cacheEvent>>]_vars

\* the key was created under "pw2" and has expired from the cache; a get asked
\* the listener, which unwraps with "pw1", and was rejected with the unwrapping
\* error; the cache is empty
C24_Witness ==
  /\ srvMasterKey = WrapWithPassword(MasterKeyOf(1), "pw2", "r1")
  /\ created.resolved = 1
  /\ listener = [type |-> "function", password |-> "pw1"]
  /\ procs["p1"].op = "get"
  /\ procs["p1"].pc = "done"
  /\ procs["p1"].calls = 1
  /\ procs["p1"].result = Rejected(Error("OperationError", ""))
  /\ cacheEvent = "expired"
  /\ keyCache.masterKey = Null

\* C25: changeMasterKeyPassword({password}) asks for the current master key:
\* with a key cached it sends at once, without the listener, a POST of that key
\* wrapped under the new password, and with none cached and a listener set it
\* invokes the listener. The server accepts the POST and then holds a wrapped
\* key that unwraps with the new password to the key the account had before,
\* under which every stored document still decrypts, and that no other
\* password unwraps. The call then resolves to true, and neither the POST nor
\* the call's end changes the cached MasterKey.
C25_ChangePassword ==
  [][\A p \in Procs :
       /\ (Calls(p, "changeMasterKeyPassword") /\ keyCache.masterKey # Null)
            => /\ procs'[p].pc = "req"
               /\ procs'[p].calls = 0
               /\ procs'[p].msg.method = "POST"
               /\ procs'[p].msg.resource = "master-key"
               /\ UnwrapWithPassword(procs'[p].arg.value, procs'[p].msg.body)
                    = keyCache.masterKey
               /\ keyCache'.masterKey = keyCache.masterKey
       /\ (Calls(p, "changeMasterKeyPassword") /\ keyCache.masterKey = Null
             /\ listener # Null)
            => procs'[p].pc = "keyReq" /\ procs'[p].calls = 1
       /\ DocRequestHandled(p, "changeMasterKeyPassword")
            => LET unwrapped == UnwrapWithPassword(procs[p].arg.value, srvMasterKey')
               IN  /\ procs'[p].msg.status \in 200..299
                   /\ srvMasterKey # Null
                   /\ unwrapped = AccountKey
                   /\ unwrapped = CreatedKey
                   /\ \A id \in Ids :
                        written[id] # Null
                          => \E d \in srvDocs' :
                               DecryptDoc(d, unwrapped) = AfterJsonRoundTrip(written[id])
                   /\ \A pw \in Passwords \ {procs[p].arg.value} :
                        IsError(UnwrapWithPassword(pw, srvMasterKey'))
                   /\ keyCache' = keyCache
       /\ (procs[p].op = "changeMasterKeyPassword" /\ procs[p].pc = "resp"
             /\ procs'[p] # procs[p])
            => /\ procs'[p].pc = "done"
               /\ procs'[p].result = Resolved(Bool(TRUE))
               /\ keyCache'.masterKey = keyCache.masterKey
               /\ keyCache.masterKey \in {Null, CreatedKey}
               /\ UNCHANGED srvMasterKey]_vars

\* changeMasterKeyPassword("pw2") has resolved to true: it got the key from
\* the listener, which unwrapped it with "pw1"; the server now holds the same
\* key wrapped under "pw2", a document written before is stored, and the cache
\* holds that key
C25_Witness ==
  /\ procs["p1"].op = "changeMasterKeyPassword"
  /\ procs["p1"].arg = Str("pw2")
  /\ procs["p1"].pc = "done"
  /\ procs["p1"].calls = 1
  /\ procs["p1"].result = Resolved(Bool(TRUE))
  /\ listener = [type |-> "function", password |-> "pw1"]
  /\ srvMasterKey = WrapWithPassword(MasterKeyOf(1), "pw2", "r1")
  /\ written["foo"] # Null
  /\ keyCache.masterKey = MasterKeyOf(1)

\* `doc` is an object whose id is a string (the empty string included)
HasStringId(doc) == doc.type = "object" /\ doc.id \in Ids \cup {""}

\* caller p calls insert or update in this step
CallsWrite(p) == Calls(p, "insert") \/ Calls(p, "update")

\* C26 as claimed: insert and update reject, sending nothing, every document
\* whose id is not a non-empty string, the empty string included.
C26_RejectsEmptyId ==
  [][\A p \in Procs :
       (CallsWrite(p)
          /\ ~(HasStringId(procs'[p].arg) /\ procs'[p].arg.id # ""))
         => /\ procs'[p].pc = "done"
            /\ procs'[p].result.type = "rejected"
            /\ procs'[p].msg = Null]_vars

\* C26 as the code has it: insert and update reject at once, with a TypeError
\* and without asking for the master key or sending anything, every document
\* that is not an object with a string id; a document whose id is the empty
\* string passes the check like any other string id: with the key cached it
\* is encrypted and sent under the blinded empty id, and the server stores it.
C26_RejectsNonStringId ==
  [][\A p \in Procs :
       /\ (CallsWrite(p) /\ ~HasStringId(procs'[p].arg))
            => /\ procs'[p].pc = "done"
               /\ procs'[p].result
                    = Rejected([type |-> "error", name |-> "TypeError",
                                message |-> "\"doc\" must be an object with an \"id\" string property."])
               /\ procs'[p].asked = 0
               /\ procs'[p].msg = Null
               /\ UNCHANGED <<cacheVars, serverVars>>
       /\ (CallsWrite(p) /\ HasStringId(procs'[p].arg))
            => /\ procs'[p].asked = 1
               /\ keyCache.masterKey # Null
                    => /\ procs'[p].pc = "req"
                       /\ procs'[p].msg.body.id
                            = Blind(keyCache.masterKey, procs'[p].arg.id)
       /\ (DocRequestHandled(p, "update") /\ procs[p].arg.id = "")
            => /\ procs'[p].msg.status \in 200..299
               /\ procs[p].msg.body \in srvDocs'
               /\ DecryptDoc(procs[p].msg.body, procs[p].masterKey) = procs[p].arg]_vars

\* an insert of a document whose id is the empty string has resolved to true,
\* and the server stores its record under the blinded empty id
C26_Witness ==
  /\ procs["p1"].op = "insert"
  /\ procs["p1"].pc = "done"
  /\ procs["p1"].arg = [type |-> "object", id |-> "", indexedKey |-> "v1"]
  /\ procs["p1"].result = Resolved(Bool(TRUE))
  /\ keyCache.masterKey # Null
  /\ \E d \in srvDocs : d.id = Blind(keyCache.masterKey, "")

\* C27: every getRemoteStorage call for one accountId resolves to the same
\* RemoteStorage instance, the one the store holds for the account, whether
\* the calls follow one another or run at once: the call that loses the race
\* of store.create resolves to the stored instance, not to the one it
\* constructed. The stored instance is never replaced, so the index set and
\* the cached key a call's instance shows are those every earlier call's
\* instance was left with.
C27_SameInstance ==
  /\ [](\A a \in Accounts :
          /\ Cardinality(registry.handedOut[a]) <= 1
          /\ registry.handedOut[a] \subseteq {registry.store[a]} \ {NoInstance})
  /\ [](\A c \in Callers :
          (registry.calls[c].pc = "done"
             /\ registry.calls[c].result.type = "resolved")
            => LET i == registry.calls[c].result.value.instance
               IN  /\ i = registry.store[registry.calls[c].accountId.value]
                   /\ registry.instances[i].accountId
                        = registry.calls[c].accountId.value)
  /\ [][\A a \in Accounts :
          registry.store[a] # NoInstance
            => registry'.store[a] = registry.store[a]]_vars

\* both callers called for "test" at once and each constructed a facade; both
\* calls have resolved to the first facade, on which 'indexedKey' was indexed
\* and a master key cached
C27_Witness ==
  /\ \A c \in Callers :
       /\ registry.calls[c].pc = "done"
       /\ registry.calls[c].accountId = Str("test")
       /\ registry.calls[c].result
            = Resolved([type |-> "RemoteStorage", instance |-> 1])
  /\ registry.calls["c1"].local = 1
  /\ registry.calls["c2"].local = 2
  /\ registry.instances[1].indexes = {"type", "indexedKey"}
  /\ registry.instances[1].masterKey # Null

\* the records this facade has written and the server should hold
RecordsWritten ==
  {EncryptDoc(written[id], AccountKey, writtenIdx[id], "r1") :
     id \in {i \in Ids : written[i] # Null}}

\* operation p is a find that resumes in this step with the server's answer
FindAnswered(p) ==
  /\ procs[p].op = "find"
  /\ procs[p].pc = "resp"
  /\ procs'[p] # procs[p]
  /\ procs[p].msg.status \in 200..299

\* C28: find has no partial success. With the master key at hand, a find whose
\* answer holds a record that is not as this facade wrote it (without its jwe,
\* with an altered iv, or decrypting to an object without a string id) rejects
\* and the caller gets no document, however many of the other records are
\* sound; a find whose answer holds sound records only resolves to as many
\* documents as records.
C28_FindAllOrNothing ==
  [][\A p \in Procs :
       (FindAnswered(p) /\ keyCache.masterKey # Null)
         => LET records == procs[p].msg.data
            IN  /\ procs'[p].pc = "done"
                /\ (\E i \in DOMAIN records : records[i] \notin RecordsWritten)
                     => procs'[p].result.type = "rejected"
                /\ (\A i \in DOMAIN records : records[i] \in RecordsWritten)
                     => /\ procs'[p].result.type = "resolved"
                        /\ Len(procs'[p].result.value.items) = Len(records)]_vars

\* two records are stored, one of them sound and one that decrypts to an
\* object without a string id; find({has: 'indexedKey'}) got both and was
\* rejected with 'Invalid decrypted document.'
C28_Witness ==
  /\ procs["p1"].op = "find"
  /\ procs["p1"].pc = "done"
  /\ procs["p1"].result = Rejected(Error("Error", "Invalid decrypted document."))
  /\ Cardinality(srvDocs) = 2
  /\ Cardinality(srvDocs \cap RecordsWritten) = 1
  /\ keyCache.masterKey # Null

\* the failure status that operation op turns into something of its own
MapsStatus(op, status) ==
  \/ op = "createMasterKey" /\ status = 304
  \/ op = "insert" /\ status = 409
  \/ op \in {"get", "delete"} /\ status = 404

\* C29: errors are never swallowed. An operation that resumes with a failed
\* transport exchange ends at once; when the status is not the one the
\* operation maps (304 for createMasterKey, 409 for insert, 404 for get and
\* delete) the caller gets the transport's own error, carrying that status;
\* and the only failed exchange after which an operation resolves is delete's
\* 404, which resolves to false.
C29_ErrorsSurface ==
  [][\A p \in Procs :
       (procs[p].pc = "resp" /\ procs'[p] # procs[p]
          /\ procs[p].msg.status \notin 200..299)
         => LET op == procs[p].op
                status == procs[p].msg.status
            IN  /\ procs'[p].pc = "done"
                /\ ~MapsStatus(op, status)
                     => procs'[p].result = Rejected(TransportError(status))
                /\ procs'[p].result.type = "resolved"
                     => /\ op = "delete"
                        /\ status = 404
                        /\ procs'[p].result.value = Bool(FALSE)]_vars

\* an insert whose POST failed with 404, a status that get and delete map but
\* insert does not, has rejected with the transport's error
C29_Witness ==
  /\ procs["p1"].op = "insert"
  /\ procs["p1"].pc = "done"
  /\ procs["p1"].result = Rejected(TransportError(404))

\* C30: the expiry timer never races with a re-arm. At most one expiry timer
\* is pending at any time, key cached or not, and it is the one the cache
\* armed last; every update or resetTimeout leaves exactly the timer it arms,
\* with the stored timeout to run, whatever was pending before (also after a
\* clear() that left its timer pending); and a timer fires, clearing the
\* cache, no earlier than the stored timeout after the most recent update or
\* resetTimeout.
C30_OneTimer ==
  /\ [](/\ Cardinality(timers) <= 1
        /\ \A t \in timers : t.id = keyCache.timerId)
  /\ [][/\ (cacheEvent' \in {"update", "resetTimeout"} /\ elapsed' = 0)
             => timers' = {[id |-> keyCache'.timerId,
                            remaining |-> keyCache'.expiration.timeout]}
        /\ (cacheEvent' = "expired" /\ timers' # timers)
             => /\ elapsed >= keyCache.expiration.timeout
                /\ keyCache'.masterKey = Null
                /\ timers' = {}]_vars

\* update(k, 2), then the cache lost its key (clear or expiry), then
\* resetTimeout; 2 ms after that call its timer, the only one, is due
C30_Witness ==
  /\ cacheEvent = "resetTimeout"
  /\ keyCache.masterKey = Null
  /\ keyCache.expiration.timeout = 2
  /\ elapsed = 2
  /\ timers = {[id |-> keyCache.timerId, remaining |-> 0]}

\* the records the server holds whose body decrypts, under the account's key,
\* to a document with id `id`
RecordsOf(id) ==
  {d \in srvDocs : LET doc == DecryptObject(AccountKey, d.jwe)
                   IN  ~IsError(doc) /\ doc.id = id}

\* C31: blinding is deterministic per master key. Whatever insert, update,
\* get or delete sends for a cleartext id addresses the record the server
\* holds for that id (there is at most one, and its token is the one the
\* request names), and the (name, value) pair find sends for {k: v} is among
\* the attributes of every stored record whose document was written with
\* indexed attribute k of value v.
C31_SameToken ==
  /\ \A id \in Ids : Cardinality(RecordsOf(id)) <= 1
  /\ \A p \in Procs :
       (procs[p].pc = "req" /\ procs[p].op \in DocOps)
         => LET req == procs[p].msg
                id == IF procs[p].op \in {"insert", "update"}
                        THEN procs[p].arg.id ELSE procs[p].arg.value
                token == IF req.method = "POST" THEN req.body.id ELSE req.id
            IN  \A d \in RecordsOf(id) : d.id = token
  /\ \A p \in Procs :
       (procs[p].pc = "req" /\ procs[p].op = "find")
         => LET pair == procs[p].arg.equals.entries[1]
            IN  \A id \in Ids :
                  (/\ written[id] # Null
                   /\ pair[1] \in CarriedAttributes(id)
                   /\ WrittenValue(id, pair[1]) = pair[2])
                    => /\ RecordsOf(id) # {}
                       /\ \A d \in RecordsOf(id) :
                            procs[p].msg.body.equals[1] \subseteq AttributePairs(d)

\* a delete of "foo" is on its way while the server holds, for "foo" and for
\* "bar", one record each, written with the indexed attribute
C31_Witness ==
  /\ procs["p1"].op = "delete"
  /\ procs["p1"].pc = "req"
  /\ procs["p1"].arg = Str("foo")
  /\ Cardinality(RecordsOf("foo")) = 1
  /\ Cardinality(RecordsOf("bar")) = 1
  /\ writtenIdx["foo"] = {"indexedKey"}

\* C32: every MasterKey held in the key cache, whether createMasterKey or a
\* listener's response placed it there, has its derived kek and hmac keys.
C32_CachedKeyInitialized ==
  keyCache.masterKey # Null
    => /\ keyCache.masterKey.type = "MasterKey"
       /\ keyCache.masterKey.kek # Null
       /\ keyCache.masterKey.hmac # Null

\* C33: getPrimary({controller}) resolves to the first configuration of the
\* list getAll returns for that controller with primary: true (the
\* controller's primary configurations, in the server's order), and to null
\* when that list is empty.
C33_GetPrimary ==
  (hubs.call.pc = "done" /\ hubs.call.op = "getPrimary")
    => LET list == HubsMatching(hubs.configs,
                                [controller |-> hubs.call.arg.controller,
                                 primary |-> TRUE])
       IN  hubs.call.result = Resolved(IF list = <<>> THEN Null ELSE list[1])

\* C34 as stated: every insert, update, delete, get and find invokes the
\* masterKeyRequest listener at most once, whatever the timeout and however
\* the expiry interleaves with its transport calls.
C34_OneListenerCall ==
  \A p \in Procs :
    procs[p].op \in {"insert", "update", "delete", "get", "find"}
      => procs[p].calls <= 1

\* C34 as amended: insert, update and delete invoke the listener at most once;
\* get at most twice, and find at most once before its request (stage 1) and
\* once more for every record the server returned. A get or find that resumes
\* with its records while the cache is empty and a listener is registered
\* invokes the listener once per record.
C34_ListenerCallsPerOperation ==
  /\ [](\A p \in Procs :
          /\ procs[p].op \in {"insert", "update", "delete"} => procs[p].calls <= 1
          /\ procs[p].op = "get" => procs[p].calls <= 2
          /\ procs[p].op = "find"
               => /\ procs[p].calls <= 1 + Cardinality(srvDocs)
                  /\ procs[p].stage = 1 => procs[p].calls <= 1)
  /\ [][\A p \in Procs :
          (/\ procs[p].pc = "resp"
           /\ procs'[p].pc # "resp"
           /\ procs[p].op \in {"get", "find"}
           /\ procs[p].msg.status \in 200..299
           /\ keyCache.masterKey = Null
           /\ listener # Null)
            => procs'[p].calls
                 = procs[p].calls
                     + (IF procs[p].op = "get" THEN 1 ELSE Len(procs[p].msg.data))
       ]_<<[p \in Procs |-> procs[p].pc], [p \in Procs |-> procs[p].calls]>>

\* a find got two records and resolved after three listener invocations: one
\* before its request and, the key having expired meanwhile, one per record
C34_Witness ==
  /\ procs["p1"].op = "find"
  /\ procs["p1"].pc = "done"
  /\ procs["p1"].result.type = "resolved"
  /\ Len(procs["p1"].result.value.items) = 2
  /\ procs["p1"].calls = 3

\* C35: key requests are not coalesced. An operation that asks for the master
\* key while the cache is empty and another operation's listener response is
\* still pending invokes the listener itself; and every listener response that
\* resolves to a key is cached, key and timeout, with the timer rearmed for
\* that timeout, whether or not an earlier response has been cached already,
\* so that the cache ends up with the response that resolved last.
C35_NotCoalesced ==
  [][\A p \in Procs :
       /\ (/\ CanStart(p)
           /\ ~CanStart(p)'
           /\ keyCache.masterKey = Null
           /\ listener # Null
           /\ \E q \in Procs \ {p} : procs[q].pc \in {"keyReq", "keyResp"})
            => /\ procs'[p].pc = "keyReq"
               /\ procs'[p].calls = 1
       /\ (/\ procs[p].pc = "keyResp"
           /\ procs'[p].pc # "keyResp"
           /\ procs[p].msg.status = 200)
            => /\ procs'[p].response # Null
               /\ keyCache'.masterKey = procs'[p].response.masterKey
               /\ keyCache'.expiration.timeout = procs'[p].response.timeout
               /\ timers' = {[id |-> keyCache'.timerId,
                              remaining |-> procs'[p].response.timeout]}
    ]_<<[p \in Procs |-> procs[p].pc], [p \in Procs |-> procs[p].calls]>>

\* two gets each invoked the listener once; the first response carried a
\* timeout of 1 ms and the second, which resolved while the first key was
\* still cached, one of 2 ms: the cache holds the second, its timer rearmed
C35_Witness ==
  /\ procs["p1"].calls = 1
  /\ procs["p2"].calls = 1
  /\ procs["p1"].pc = "req"
  /\ procs["p2"].pc = "req"
  /\ procs["p1"].response # Null
  /\ procs["p2"].response # Null
  /\ procs["p1"].response.timeout = 1
  /\ procs["p2"].response.timeout = 2
  /\ elapsed = 0
  /\ keyCache.expiration.timeout = 2
  /\ timers = {[id |-> keyCache.timerId, remaining |-> 2]}

\* C36: only a respondWith call made while the listener runs is honoured. When
\* the listener returned without having called it, the operation waits for
\* nothing but a promise that is settled already (no request of the listener
\* is awaited), the cache being empty; its next step ends it, rejected with a
\* TypeError, the cache still empty and no timer armed; and that step does
\* come, so the operation never hangs.
C36_SilentListenerRejects ==
  /\ [](\A p \in Procs :
          procs[p].pc = "keyResp"
            => /\ procs[p].msg = NoResponse
               /\ listener \in SilentListeners
               /\ keyCache.masterKey = Null)
  /\ [][\A p \in Procs :
          (procs[p].pc = "keyResp" /\ procs'[p].pc # "keyResp")
            => /\ procs'[p].pc = "done"
               /\ procs'[p].result.type = "rejected"
               /\ procs'[p].result.error.name = "TypeError"
               /\ keyCache'.masterKey = Null
               /\ timers' = timers
      ]_<<[p \in Procs |-> procs[p].pc], [p \in Procs |-> procs[p].calls]>>
  /\ \A p \in {"p1"} : (procs[p].pc = "keyResp") ~> (procs[p].pc = "done")

\* a get invoked the listener that calls respondWith later, once, and was
\* rejected with the TypeError; the server holds a master key the listener
\* could have fetched, and the cache is empty
C36_Witness ==
  /\ listener \in SilentListeners
  /\ listener.responds = "later"
  /\ srvMasterKey # Null
  /\ procs["p1"].op = "get"
  /\ procs["p1"].pc = "done"
  /\ procs["p1"].calls = 1
  /\ procs["p1"].result.type = "rejected"
  /\ procs["p1"].result.error.name = "TypeError"
  /\ keyCache.masterKey = Null
  /\ timers = {}

\* C37: the argument checks come before the master key is asked for. A find
\* with an invalid filter, and an insert or update with an invalid document,
\* ends in the step of the call, rejected with the error of the check, whether
\* a key is cached, a listener is registered, or neither: the cache and its
\* expiry timer are as they were, no listener was invoked, no request was sent.
C37_ValidationFirst ==
  [][\A p \in Procs : \A op \in {"find", "insert", "update"} :
       (Calls(p, op) /\ ValidateArg(op, procs'[p].arg) # Null)
         => /\ procs'[p].pc = "done"
            /\ procs'[p].result = Rejected(ValidateArg(op, procs'[p].arg))
            /\ procs'[p].calls = 0
            /\ procs'[p].asked = 0
            /\ procs'[p].msg = Null
            /\ keyCache' = keyCache
            /\ timers' = timers
            /\ elapsed' = elapsed
            /\ UNCHANGED <<serverVars, listener>>]_vars

\* an insert of null was rejected by the check while the master key was cached,
\* a listener registered and the expiry timer part of the way down: the timer
\* has not been rearmed
C37_Witness ==
  /\ procs["p1"].op = "insert"
  /\ procs["p1"].arg = Null
  /\ procs["p1"].pc = "done"
  /\ procs["p1"].result.type = "rejected"
  /\ procs["p1"].result.error.name = "TypeError"
  /\ procs["p1"].calls = 0
  /\ listener # Null
  /\ keyCache.masterKey # Null
  /\ elapsed > 0
  /\ \E t \in timers : t.id = keyCache.timerId /\ t.remaining < keyCache.expiration.timeout

\* C38: whenever get({id}) resolves, the id of the document it resolves to is
\* the id that was asked for, whatever record validly encrypted under the
\* master key the server answered with.
C38_GetReturnsRequestedId ==
  \A p \in Procs :
    (procs[p].op = "get" /\ procs[p].pc = "done" /\ procs[p].result.type = "resolved")
      => procs[p].result.value.id = procs[p].arg.value

\* the filter with the one-element array of filter f's single value
InArray(f) ==
  IF "has" \in DOMAIN f THEN [has |-> Arr(<<f.has>>)] ELSE [equals |-> Arr(<<f.equals>>)]

\* find p has been rejected by the validation of its filter
RejectedAtOnce(p) == procs[p].pc = "done" /\ procs[p].asked = 0

\* C39: a single filter value is equivalent to the one-element array of it.
\* Of two finds, one called with a string or an object and the other with the
\* one-element array of it, either both have been rejected by the validation
\* or neither has, and while both have their query in flight the two requests
\* are the same.
C39_SingleAsArray ==
  \A p \in Procs, q \in Procs :
    (/\ procs[p].op = "find"
     /\ procs[q].op = "find"
     /\ procs[p].arg \in SingleFilters
     /\ procs[q].arg = InArray(procs[p].arg))
      => /\ RejectedAtOnce(p) <=> RejectedAtOnce(q)
         /\ (procs[p].pc = "req" /\ procs[q].pc = "req") => procs[p].msg = procs[q].msg

====
